---- MODULE Spec2Model ----
(***************************************************************************)
(* Wiggle: the signaling server (room directory) of signaling-server/      *)
(* server.js as a state machine.  One action per WebSocket event handler;  *)
(* every handler runs to completion (Node's single-threaded event loop).   *)
(***************************************************************************)
EXTENDS Naturals, Integers, Sequences, FiniteSets, TLC

(* ---------------------------------------------------------------- bounds *)

\* Number of WebSocket connections the server accepts in one run.
MaxConn == 3

\* uuidv4() values in the order the server draws them; the last ones are
\* never issued and serve as ids of participants that do not exist.
Uuids == <<"u1", "u2", "u3", "u4", "u5", "u6">>

RoomIds == {"r1", "r2"}

\* JavaScript values that are not strings of the protocol.
UNDEFINED == "<undefined>"
NULL == "<null>"

\* ws.readyState values
OPEN == "OPEN"
CLOSING == "CLOSING"
CLOSED == "CLOSED"

(* ------------------------------------------------------------ JS helpers *)

\* Property access on a parsed object: a missing property reads undefined.
Get(obj, f) == IF f \in DOMAIN obj THEN obj[f] ELSE UNDEFINED

\* Template-literal conversion of a value to text.
TemplateText(v) == IF v = UNDEFINED THEN "undefined" ELSE IF v = NULL THEN "null" ELSE v

\* !v for the values a protocol field can hold.
Falsy(v) == v \in {UNDEFINED, NULL, ""}

\* A frame on the wire: unparseable text, the literal null, a scalar, or an
\* object in compact (JSON.stringify) or spaced formatting.
JSONparse(data) ==
  CASE data.k = "garbage" -> [threw |-> TRUE, isNull |-> FALSE, obj |-> <<>>]
    [] data.k = "null"    -> [threw |-> FALSE, isNull |-> TRUE, obj |-> <<>>]
    [] data.k = "scalar"  -> [threw |-> FALSE, isNull |-> FALSE, obj |-> <<>>]
    [] OTHER              -> [threw |-> FALSE, isNull |-> FALSE, obj |-> data.obj]

\* JSON.stringify: compact formatting, properties whose value is undefined
\* are omitted.
JSONstringify(obj) ==
  LET kept == {f \in DOMAIN obj : f = "participants" \/ obj[f] # UNDEFINED}
  IN  [k |-> "object", fmt |-> "compact", obj |-> [f \in kept |-> obj[f]]]

\* Set.delete on an insertion-ordered Set.
SetDelete(members, id) == SelectSeq(members, LAMBDA x : x # id)

\* Set.add on an insertion-ordered Set.
SetAdd(members, id) ==
  IF \E i \in 1..Len(members) : members[i] = id THEN members
  ELSE Append(members, id)

\* Map.delete
MapDelete(map, key) == [k \in (DOMAIN map) \ {key} |-> map[k]]

\* Map.set
MapSet(map, key, val) == [k \in (DOMAIN map) \cup {key} |-> IF k = key THEN val ELSE map[k]]

Range(seq) == {seq[i] : i \in 1..Len(seq)}

(* ----------------------------------------------------------------- state *)

VARIABLES
  rooms,         \* this.rooms: roomId -> insertion-ordered Set of participant ids
  participants,  \* this.participants: participantId -> [ws, roomId, nickname]
  issued,        \* number of uuids drawn so far
  lastJoin       \* history: per issued id, the room of its latest join-room carrying
                 \* a room id if no leave-room or close came after it, else NULL

\* The session client (SignalingClient) of one browser tab.
VARIABLES
  ws,                  \* this.ws: 0 for null, else the number of a WebSocket
  sockets,             \* readyState of every WebSocket the client has created
  reconnectAttempts,   \* this.reconnectAttempts
  isConnecting,        \* this.isConnecting
  isIntentionalClose,  \* this.isIntentionalClose
  timers,              \* delays of the setTimeout callbacks not yet run, in
                       \* scheduling order
  promises,            \* per socket whose connect() promise is not settled:
                       \* who holds the promise, the caller or a reconnect timer
  callerClosed,        \* history: the caller's latest connect()/disconnect()
                       \* call was disconnect()
  unintended           \* history: close events seen while isIntentionalClose
                       \* was false, since the caller's latest connect() or
                       \* disconnect()

\* The peer connection orchestrator (WebRTCManager) of one browser tab and
\* the AudioManager it is given.
VARIABLES
  isInitialized,       \* WebRTCManager.isInitialized
  connections,         \* WebRTCManager.connections: peerId -> PeerConnection
  peers,               \* every SimplePeer object created so far, in order
  localStream,         \* AudioManager.localStream is set
  remoteStreams        \* AudioManager.remoteStreams: peerId -> the SimplePeer
                       \* object the stream came from

serverVars == <<rooms, participants, issued, lastJoin>>

rtcVars == <<isInitialized, connections, peers, localStream, remoteStreams>>

clientVars ==
  <<ws, sockets, reconnectAttempts, isConnecting, isIntentionalClose, timers,
    promises, callerClosed, unintended>>

vars == <<serverVars, clientVars, rtcVars>>

\* this.ws = null
NoSocket == 0

\* The fields of a SignalingClient after construction.
ClientConstructed ==
  /\ ws = NoSocket
  /\ sockets = <<>>
  /\ reconnectAttempts = 0
  /\ isConnecting = FALSE
  /\ isIntentionalClose = FALSE
  /\ timers = <<>>
  /\ promises = <<>>
  /\ callerClosed = FALSE
  /\ unintended = 0

\* The fields of a WebRTCManager and of its AudioManager after construction.
ManagerConstructed ==
  /\ isInitialized = FALSE
  /\ connections = <<>>
  /\ peers = <<>>
  /\ localStream = FALSE
  /\ remoteStreams = <<>>

(* -------------------------------------------------------------- handlers *)
\* A handler works on s = [rooms, participants, out]; out collects ws.send.

\* sendMessage without the readyState check.
sendMessage_ignoresReadyState(s, owner, readyState, message) ==
  [s EXCEPT !.out = Append(@, [to |-> owner, data |-> JSONstringify(message)])]

sendMessage(s, owner, readyState, message) ==
  IF readyState = OPEN
  THEN [s EXCEPT !.out = Append(@, [to |-> owner, data |-> JSONstringify(message)])]
  ELSE s

sendError(s, owner, readyState, errorMessage) ==
  sendMessage(s, owner, readyState, [type |-> "error", message |-> errorMessage])

\* broadcastToRoom without the readyState test.
broadcastToRoom_ignoresReadyState(s, roomId, message, excludeParticipantId) ==
  IF roomId \notin DOMAIN s.rooms THEN s
  ELSE LET to == SelectSeq(s.rooms[roomId], LAMBDA id :
                   /\ id # excludeParticipantId
                   /\ id \in DOMAIN s.participants)
       IN  [s EXCEPT !.out = @ \o [i \in 1..Len(to) |->
                                    [to |-> to[i], data |-> JSONstringify(message)]]]

\* broadcastToRoom without the exclusion of excludeParticipantId.
broadcastToRoom_excludesNobody(s, roomId, message, excludeParticipantId) ==
  IF roomId \notin DOMAIN s.rooms THEN s
  ELSE LET to == SelectSeq(s.rooms[roomId], LAMBDA id :
                   /\ id \in DOMAIN s.participants
                   /\ s.participants[id].ws = OPEN)
       IN  [s EXCEPT !.out = @ \o [i \in 1..Len(to) |->
                                    [to |-> to[i], data |-> JSONstringify(message)]]]

broadcastToRoom(s, roomId, message, excludeParticipantId) ==
  IF roomId \notin DOMAIN s.rooms THEN s
  ELSE LET to == SelectSeq(s.rooms[roomId], LAMBDA id :
                   /\ id # excludeParticipantId
                   /\ id \in DOMAIN s.participants
                   /\ s.participants[id].ws = OPEN)
       IN  [s EXCEPT !.out = @ \o [i \in 1..Len(to) |->
                                    [to |-> to[i], data |-> JSONstringify(message)]]]

\* handleLeaveRoom without the confirmation to the leaving participant.
handleLeaveRoom_noConfirmation(s, participantId) ==
  IF \/ participantId \notin DOMAIN s.participants
     \/ Falsy(s.participants[participantId].roomId)
  THEN s
  ELSE
    LET roomId == s.participants[participantId].roomId
        s1 == IF roomId \in DOMAIN s.rooms
              THEN LET room == SetDelete(s.rooms[roomId], participantId)
                   IN  IF Len(room) = 0
                       THEN [s EXCEPT !.rooms = MapDelete(@, roomId)]
                       ELSE broadcastToRoom(
                              [s EXCEPT !.rooms[roomId] = room], roomId,
                              [type |-> "participant-left",
                               participantId |-> participantId], NULL)
              ELSE s
    IN  [s1 EXCEPT !.participants[participantId].roomId = NULL]

\* handleLeaveRoom without the early return for a participant in no room.
handleLeaveRoom_noRoomGuard(s, participantId) ==
  IF participantId \notin DOMAIN s.participants
  THEN s
  ELSE
    LET roomId == s.participants[participantId].roomId
        s1 == IF roomId \in DOMAIN s.rooms
              THEN LET room == SetDelete(s.rooms[roomId], participantId)
                   IN  IF Len(room) = 0
                       THEN [s EXCEPT !.rooms = MapDelete(@, roomId)]
                       ELSE broadcastToRoom(
                              [s EXCEPT !.rooms[roomId] = room], roomId,
                              [type |-> "participant-left",
                               participantId |-> participantId], NULL)
              ELSE s
        s2 == [s1 EXCEPT !.participants[participantId].roomId = NULL]
    IN  sendMessage(s2, participantId, s2.participants[participantId].ws,
                    [type |-> "room-left", roomId |-> roomId])

\* handleLeaveRoom that keeps an emptied room in the map.
handleLeaveRoom_keepsEmptyRoom(s, participantId) ==
  IF \/ participantId \notin DOMAIN s.participants
     \/ Falsy(s.participants[participantId].roomId)
  THEN s
  ELSE
    LET roomId == s.participants[participantId].roomId
        s1 == IF roomId \in DOMAIN s.rooms
              THEN broadcastToRoom(
                     [s EXCEPT !.rooms[roomId] = SetDelete(@, participantId)], roomId,
                     [type |-> "participant-left",
                      participantId |-> participantId], NULL)
              ELSE s
        s2 == [s1 EXCEPT !.participants[participantId].roomId = NULL]
    IN  sendMessage(s2, participantId, s2.participants[participantId].ws,
                    [type |-> "room-left", roomId |-> roomId])

handleLeaveRoom(s, participantId) ==
  IF \/ participantId \notin DOMAIN s.participants
     \/ Falsy(s.participants[participantId].roomId)
  THEN s
  ELSE
    LET roomId == s.participants[participantId].roomId
        s1 == IF roomId \in DOMAIN s.rooms
              THEN LET room == SetDelete(s.rooms[roomId], participantId)
                   IN  IF Len(room) = 0
                       THEN [s EXCEPT !.rooms = MapDelete(@, roomId)]
                       ELSE broadcastToRoom(
                              [s EXCEPT !.rooms[roomId] = room], roomId,
                              [type |-> "participant-left",
                               participantId |-> participantId], NULL)
              ELSE s
        s2 == [s1 EXCEPT !.participants[participantId].roomId = NULL]
    IN  sendMessage(s2, participantId, s2.participants[participantId].ws,
                    [type |-> "room-left", roomId |-> roomId])

\* existingParticipants without the filter that drops the joiner.
existingParticipants_includesJoiner(s, roomId, participantId) ==
  LET others == s.rooms[roomId]
  IN  [i \in 1..Len(others) |->
        [participantId |-> others[i],
         nickname |-> IF others[i] \in DOMAIN s.participants
                         /\ ~Falsy(s.participants[others[i]].nickname)
                      THEN s.participants[others[i]].nickname
                      ELSE "Anonymous"]]

existingParticipants(s, roomId, participantId) ==
  LET others == SelectSeq(s.rooms[roomId], LAMBDA id : id # participantId)
  IN  [i \in 1..Len(others) |->
        [participantId |-> others[i],
         nickname |-> IF others[i] \in DOMAIN s.participants
                         /\ ~Falsy(s.participants[others[i]].nickname)
                      THEN s.participants[others[i]].nickname
                      ELSE "Anonymous"]]

\* handleJoinRoom without the implicit leave of the current room.
handleJoinRoom_noImplicitLeave(s, participantId, message) ==
  LET roomId == Get(message, "roomId")
      nickname == Get(message, "nickname")
  IN
  IF participantId \notin DOMAIN s.participants \/ Falsy(roomId) THEN s
  ELSE
    LET s2 == IF roomId \notin DOMAIN s.rooms
              THEN [s EXCEPT !.rooms = MapSet(@, roomId, <<>>)]
              ELSE s
        s3 == [s2 EXCEPT
                 !.participants[participantId].roomId = roomId,
                 !.participants[participantId].nickname =
                     IF Falsy(nickname) THEN "Anonymous" ELSE nickname,
                 !.rooms[roomId] = SetAdd(@, participantId)]
        s4 == sendMessage(s3, participantId, s3.participants[participantId].ws,
                 [type |-> "room-joined", roomId |-> roomId,
                  participantId |-> participantId])
        s5 == broadcastToRoom(s4, roomId,
                 [type |-> "participant-joined", participantId |-> participantId,
                  nickname |-> s4.participants[participantId].nickname],
                 participantId)
        existing == existingParticipants(s5, roomId, participantId)
    IN  IF Len(existing) > 0
        THEN sendMessage(s5, participantId, s5.participants[participantId].ws,
                 [type |-> "existing-participants", participants |-> existing])
        ELSE s5

\* handleJoinRoom leaving the current room before it looks at roomId.
handleJoinRoom_leavesBeforeCheck(s, participantId, message) ==
  IF participantId \notin DOMAIN s.participants THEN s
  ELSE LET s1 == IF ~Falsy(s.participants[participantId].roomId)
                 THEN handleLeaveRoom(s, participantId)
                 ELSE s
       IN  IF Falsy(Get(message, "roomId")) THEN s1
           ELSE handleJoinRoom_noImplicitLeave(s1, participantId, message)

\* handleJoinRoom sending the roster before the notifications.
handleJoinRoom_rosterFirst(s, participantId, message) ==
  LET roomId == Get(message, "roomId")
      nickname == Get(message, "nickname")
  IN
  IF participantId \notin DOMAIN s.participants \/ Falsy(roomId) THEN s
  ELSE
    LET s1 == IF ~Falsy(s.participants[participantId].roomId)
              THEN handleLeaveRoom(s, participantId)
              ELSE s
        s2 == IF roomId \notin DOMAIN s1.rooms
              THEN [s1 EXCEPT !.rooms = MapSet(@, roomId, <<>>)]
              ELSE s1
        s3 == [s2 EXCEPT
                 !.participants[participantId].roomId = roomId,
                 !.participants[participantId].nickname =
                     IF Falsy(nickname) THEN "Anonymous" ELSE nickname,
                 !.rooms[roomId] = SetAdd(@, participantId)]
        s4 == sendMessage(s3, participantId, s3.participants[participantId].ws,
                 [type |-> "room-joined", roomId |-> roomId,
                  participantId |-> participantId])
        existing == existingParticipants(s4, roomId, participantId)
        s5 == IF Len(existing) > 0
              THEN sendMessage(s4, participantId, s4.participants[participantId].ws,
                       [type |-> "existing-participants", participants |-> existing])
              ELSE s4
    IN  broadcastToRoom(s5, roomId,
                 [type |-> "participant-joined", participantId |-> participantId,
                  nickname |-> s5.participants[participantId].nickname],
                 participantId)

\* handleJoinRoom broadcasting participant-joined a second time after the
\* roster.
handleJoinRoom_notifiesTwice(s, participantId, message) ==
  LET roomId == Get(message, "roomId")
      nickname == Get(message, "nickname")
  IN
  IF participantId \notin DOMAIN s.participants \/ Falsy(roomId) THEN s
  ELSE
    LET s1 == IF ~Falsy(s.participants[participantId].roomId)
              THEN handleLeaveRoom(s, participantId)
              ELSE s
        s2 == IF roomId \notin DOMAIN s1.rooms
              THEN [s1 EXCEPT !.rooms = MapSet(@, roomId, <<>>)]
              ELSE s1
        s3 == [s2 EXCEPT
                 !.participants[participantId].roomId = roomId,
                 !.participants[participantId].nickname =
                     IF Falsy(nickname) THEN "Anonymous" ELSE nickname,
                 !.rooms[roomId] = SetAdd(@, participantId)]
        s4 == sendMessage(s3, participantId, s3.participants[participantId].ws,
                 [type |-> "room-joined", roomId |-> roomId,
                  participantId |-> participantId])
        s5 == broadcastToRoom(s4, roomId,
                 [type |-> "participant-joined", participantId |-> participantId,
                  nickname |-> s4.participants[participantId].nickname],
                 participantId)
        existing == existingParticipants(s5, roomId, participantId)
        s6 == IF Len(existing) > 0
              THEN sendMessage(s5, participantId, s5.participants[participantId].ws,
                       [type |-> "existing-participants", participants |-> existing])
              ELSE s5
    IN  broadcastToRoom(s6, roomId,
                 [type |-> "participant-joined", participantId |-> participantId,
                  nickname |-> s6.participants[participantId].nickname],
                 participantId)

handleJoinRoom(s, participantId, message) ==
  LET roomId == Get(message, "roomId")
      nickname == Get(message, "nickname")
  IN
  IF participantId \notin DOMAIN s.participants \/ Falsy(roomId) THEN s
  ELSE
    LET s1 == IF ~Falsy(s.participants[participantId].roomId)
              THEN handleLeaveRoom(s, participantId)
              ELSE s
        s2 == IF roomId \notin DOMAIN s1.rooms
              THEN [s1 EXCEPT !.rooms = MapSet(@, roomId, <<>>)]
              ELSE s1
        s3 == [s2 EXCEPT
                 !.participants[participantId].roomId = roomId,
                 !.participants[participantId].nickname =
                     IF Falsy(nickname) THEN "Anonymous" ELSE nickname,
                 !.rooms[roomId] = SetAdd(@, participantId)]
        s4 == sendMessage(s3, participantId, s3.participants[participantId].ws,
                 [type |-> "room-joined", roomId |-> roomId,
                  participantId |-> participantId])
        s5 == broadcastToRoom(s4, roomId,
                 [type |-> "participant-joined", participantId |-> participantId,
                  nickname |-> s4.participants[participantId].nickname],
                 participantId)
        existing == existingParticipants(s5, roomId, participantId)
    IN  IF Len(existing) > 0
        THEN sendMessage(s5, participantId, s5.participants[participantId].ws,
                 [type |-> "existing-participants", participants |-> existing])
        ELSE s5

\* handleSignal that takes the sender id from the message when it carries one.
handleSignal_trustsFrom(s, participantId, message) ==
  LET to == Get(message, "to")
      signal == Get(message, "signal")
  IN  IF to \notin DOMAIN s.participants THEN s
      ELSE sendMessage(s, to, s.participants[to].ws,
               [type |-> "signal",
                from |-> IF "from" \in DOMAIN message THEN message.from ELSE participantId,
                signal |-> signal])

\* handleSignal relaying only between members of one room.
handleSignal_sameRoomOnly(s, participantId, message) ==
  LET to == Get(message, "to")
      signal == Get(message, "signal")
  IN  IF to \notin DOMAIN s.participants THEN s
      ELSE IF \/ Falsy(s.participants[participantId].roomId)
              \/ s.participants[to].roomId # s.participants[participantId].roomId
      THEN s
      ELSE sendMessage(s, to, s.participants[to].ws,
               [type |-> "signal", from |-> participantId, signal |-> signal])

handleSignal(s, participantId, message) ==
  LET to == Get(message, "to")
      signal == Get(message, "signal")
  IN  IF to \notin DOMAIN s.participants THEN s
      ELSE sendMessage(s, to, s.participants[to].ws,
               [type |-> "signal", from |-> participantId, signal |-> signal])

handleMessage(s, participantId, message) ==
  IF participantId \notin DOMAIN s.participants THEN s
  ELSE
    LET type == Get(message, "type")
    IN  CASE type = "join-room"  -> handleJoinRoom(s, participantId, message)
          [] type = "leave-room" -> handleLeaveRoom(s, participantId)
          [] type = "signal"     -> handleSignal(s, participantId, message)
          [] OTHER -> sendError(s, participantId, s.participants[participantId].ws,
                                "Unknown message type: " \o TemplateText(type))

\* handleDisconnection that leaves the room but keeps the participant record.
handleDisconnection_keepsRecord(s, participantId) ==
  IF /\ participantId \in DOMAIN s.participants
     /\ ~Falsy(s.participants[participantId].roomId)
  THEN handleLeaveRoom(s, participantId)
  ELSE s

handleDisconnection(s, participantId) ==
  LET s1 == IF /\ participantId \in DOMAIN s.participants
               /\ ~Falsy(s.participants[participantId].roomId)
            THEN handleLeaveRoom(s, participantId)
            ELSE s
  IN  [s1 EXCEPT !.participants = MapDelete(@, participantId)]

\* ws.on('message'): parse inside try, any throw is answered with sendError.
\* Reading message.type of the parsed literal null throws a TypeError once
\* handleMessage has found the participant record.
onMessage(s, participantId, readyState, data) ==
  LET parsed == JSONparse(data)
  IN  IF parsed.threw
      THEN sendError(s, participantId, readyState, "Invalid message format")
      ELSE IF parsed.isNull
      THEN IF participantId \in DOMAIN s.participants
           THEN sendError(s, participantId, readyState, "Invalid message format")
           ELSE s
      ELSE handleMessage(s, participantId, parsed.obj)

(* ---------------------------------------------------------------- inputs *)

IssuedIds == {Uuids[i] : i \in 1..issued}

\* Ids a signal may name: every id the server can issue and one it never does.
TargetIds == {Uuids[i] : i \in 1..(MaxConn + 1)}

\* An opaque negotiation payload.
SDP == "sdp-offer"

Obj(fmt, obj) == [k |-> "object", fmt |-> fmt, obj |-> obj]

\* join-room under a nickname into either room, and without one into r1.
JoinFrames ==
  {Obj("compact", [type |-> "join-room", roomId |-> r, nickname |-> "alice"]) : r \in RoomIds}
  \cup {Obj("compact", [type |-> "join-room", roomId |-> "r1"])}

BadJoinFrames ==
  {Obj("compact", [type |-> "join-room", nickname |-> "alice"]),
   Obj("compact", [type |-> "join-room", roomId |-> "", nickname |-> "alice"])}

LeaveFrame == Obj("compact", [type |-> "leave-room"])

\* Hand-written frames with a forged from for every target, and frames as
\* the session client sends them: a full one, one without to, one without
\* signal.
SignalFrames ==
  {Obj("spaced", [type |-> "signal", to |-> t, signal |-> SDP,
                  from |-> Uuids[MaxConn + 2]]) : t \in TargetIds}
  \cup {Obj("compact", [type |-> "signal", to |-> Uuids[2], signal |-> SDP]),
        Obj("compact", [type |-> "signal", signal |-> SDP]),
        Obj("compact", [type |-> "signal", to |-> Uuids[1]])}

UnknownTypeFrames ==
  {[k |-> "scalar"],
   Obj("compact", [type |-> "mute"]),
   Obj("compact", [roomId |-> "r1"])}

UnparseableFrames == {[k |-> "garbage"], [k |-> "null"]}

Frames ==
  JoinFrames \cup BadJoinFrames \cup {LeaveFrame} \cup SignalFrames
  \cup UnknownTypeFrames \cup UnparseableFrames

(* --------------------------------------------------------------- actions *)

\* The directory's state as the handlers see it, with nothing sent yet.
Cur == [rooms |-> rooms, participants |-> participants, out |-> <<>>]

Commit(s) ==
  /\ rooms' = s.rooms
  /\ participants' = s.participants

\* readyState of the socket that was given participantId
ReadyState(participantId) ==
  IF participantId \in DOMAIN participants
  THEN participants[participantId].ws ELSE CLOSED

\* new SignalingServer(): no room, no participant.
ServerConstructed ==
  /\ rooms = <<>>
  /\ participants = <<>>
  /\ issued = 0
  /\ lastJoin = <<>>

Init ==
  /\ ServerConstructed
  /\ ClientConstructed
  /\ ManagerConstructed

\* server.on('connection')
Connected(participantId) ==
  sendMessage(
    [Cur EXCEPT !.participants = MapSet(@, participantId,
        [ws |-> OPEN, roomId |-> NULL, nickname |-> "Anonymous"])],
    participantId, OPEN,
    [type |-> "connected", participantId |-> participantId])

OnConnection ==
  /\ issued < MaxConn
  /\ Commit(Connected(Uuids[issued + 1]))
  /\ issued' = issued + 1
  /\ lastJoin' = MapSet(lastJoin, Uuids[issued + 1], NULL)
  /\ UNCHANGED <<clientVars, rtcVars>>

\* What the frame asks for, read off the frame alone.
Asked(participantId, data) ==
  IF data \in JoinFrames THEN data.obj.roomId
  ELSE IF data = LeaveFrame THEN NULL
  ELSE lastJoin[participantId]

\* ws.on('message') of the connection that was given participantId
OnMessage(participantId, data) ==
  /\ participantId \in IssuedIds
  /\ Commit(onMessage(Cur, participantId, ReadyState(participantId), data))
  /\ lastJoin' = IF participantId \in DOMAIN participants
                 THEN [lastJoin EXCEPT ![participantId] = Asked(participantId, data)]
                 ELSE lastJoin
  /\ UNCHANGED <<issued, clientVars, rtcVars>>

\* The transport starts closing: readyState leaves OPEN before 'close' fires.
TransportClosing(participantId) ==
  /\ participantId \in DOMAIN participants
  /\ participants[participantId].ws = OPEN
  /\ participants' = [participants EXCEPT ![participantId].ws = CLOSING]
  /\ UNCHANGED <<rooms, issued, lastJoin, clientVars, rtcVars>>

\* ws.on('close'): readyState is CLOSED when the handler runs
Closed(participantId) ==
  handleDisconnection([Cur EXCEPT !.participants[participantId].ws = CLOSED],
                      participantId)

OnClose(participantId) ==
  /\ participantId \in DOMAIN participants
  /\ Commit(Closed(participantId))
  /\ lastJoin' = [lastJoin EXCEPT ![participantId] = NULL]
  /\ UNCHANGED <<issued, clientVars, rtcVars>>

Next ==
  \/ OnConnection
  \/ \E p \in IssuedIds : \E d \in Frames : OnMessage(p, d)
  \/ \E p \in DOMAIN participants : TransportClosing(p)
  \/ \E p \in DOMAIN participants : OnClose(p)

Spec == Init /\ [][Next]_vars

(* ---------------------------------------------------------------- claims *)

\* Members of room r as the room map has them.
Members(r) == IF r \in DOMAIN rooms THEN Range(rooms[r]) ELSE {}

Alive == DOMAIN participants

\* The parsed messages that out delivers to participant q, in order.
Inbox(out, q) ==
  LET mine == SelectSeq(out, LAMBDA m : m.to = q)
  IN  [i \in 1..Len(mine) |-> JSONparse(mine[i].data).obj]

\* The frames of out as (recipient, parsed message) pairs, in sending order.
Delivered(out) ==
  [i \in 1..Len(out) |-> [to |-> out[i].to, msg |-> JSONparse(out[i].data).obj]]

\* What handling frame data from the connection of participant p does to the
\* current state, and what it sends.
Handled(p, data) == onMessage(Cur, p, ReadyState(p), data)

\* What a handler's result amounts to: the room map, the participant records
\* and the (recipient, parsed message) pairs it sent.
Outcome(s) ==
  [rooms |-> s.rooms, participants |-> s.participants, out |-> Delivered(s.out)]

\* The handler left the room map and every participant record as they were.
Untouched(s) == s.rooms = rooms /\ s.participants = participants

IsOpen(p) == p \in Alive /\ participants[p].ws = OPEN

\* The ids of seq whose transport is open, in the order of seq.
OpenOf(seq) == SelectSeq(seq, IsOpen)

\* One copy of msg to every id of ids, in order.
ToEach(ids, msg) == [i \in 1..Len(ids) |-> [to |-> ids[i], msg |-> msg]]

\* msg to p if the transport of p is open.
ToOpen(p, msg) == IF IsOpen(p) THEN <<[to |-> p, msg |-> msg]>> ELSE <<>>

\* The room map after p is taken out of room r.
RoomsWithout(r, p) ==
  IF SetDelete(rooms[r], p) = <<>> THEN MapDelete(rooms, r)
  ELSE [rooms EXCEPT ![r] = SetDelete(rooms[r], p)]

\* The roster entries of the ids of seq, from their records.
Roster(seq) ==
  [i \in 1..Len(seq) |->
     [participantId |-> seq[i], nickname |-> participants[seq[i]].nickname]]

\* The nickname a join frame gives its sender.
NickOf(data) ==
  IF "nickname" \in DOMAIN data.obj /\ data.obj.nickname # ""
  THEN data.obj.nickname ELSE "Anonymous"

\* The members of room r other than p before p's join, in room order.
Before(r, p) == IF r \in DOMAIN rooms THEN SetDelete(rooms[r], p) ELSE <<>>

InRoom(p) == p \in Alive /\ participants[p].roomId # NULL

\* C1: after any sequence of join-room, leave-room and close events, for every
\* room id r the member set of r is exactly the set of participant records
\* whose roomId is r, which is exactly the set of participants whose latest
\* join carrying a room id was into r with no leave or close after it; no
\* participant id is in the member sets of two rooms.
Thm_C1_MembershipMatchesRecords ==
  /\ DOMAIN rooms \subseteq RoomIds
  /\ \A r \in RoomIds :
        /\ Members(r) = {p \in Alive : participants[p].roomId = r}
        /\ Members(r) = {p \in IssuedIds : lastJoin[p] = r}
        /\ r \in DOMAIN rooms => Len(rooms[r]) = Cardinality(Members(r))
  /\ \A p \in IssuedIds : Cardinality({r \in RoomIds : p \in Members(r)}) <= 1

\* Both rooms are populated and the first participant entered r2 after a
\* later one did; a participant has joined and left, or a connection has closed.
Wit_C1_TwoRoomsPopulated ==
  /\ Members("r1") # {} /\ Members("r2") # {}
  /\ \E i \in 1..Len(rooms["r2"]) : i > 1 /\ rooms["r2"][i] = Uuids[1]

Thm_C3_SignalRelayedVerbatim ==
  \A a \in Alive : \A d \in SignalFrames :
    IsOpen(Get(d.obj, "to")) =>
      Outcome(Handled(a, d)) =
        [rooms |-> rooms, participants |-> participants,
         out |-> <<[to |-> d.obj.to,
                    msg |-> IF "signal" \in DOMAIN d.obj
                            THEN [type |-> "signal", from |-> a, signal |-> d.obj.signal]
                            ELSE [type |-> "signal", from |-> a]]>>]

\* Three connected participants with open transports, sender and target in
\* different rooms, the third in the sender's room; the frame carries a forged
\* from and one frame goes out.
Wit_C3_SignalAcrossRooms ==
  \E a, b, c \in Alive :
    /\ a # b /\ b # c /\ a # c
    /\ IsOpen(a) /\ IsOpen(b) /\ IsOpen(c)
    /\ participants[a].roomId = "r1" /\ participants[c].roomId = "r1"
    /\ participants[b].roomId = "r2"
    /\ \E d \in SignalFrames :
          /\ "from" \in DOMAIN d.obj /\ d.obj.from # a /\ Get(d.obj, "to") = b
          /\ Len(Handled(a, d).out) = 1

\* C4: a signal whose target id is not a connected participant, or whose
\* target's transport is not open, is dropped: nothing is sent to anyone, no
\* error goes to the sender, and the directory's state is as before, so every
\* later message is handled as it would have been.
Thm_C4_UndeliverableSignalDropped ==
  \A a \in Alive : \A d \in SignalFrames :
    ~IsOpen(Get(d.obj, "to")) => Handled(a, d) = Cur

\* A sender with an open transport while one target's transport is closing
\* and another participant's record is gone.
Wit_C4_TargetClosingOrGone ==
  \E a, b \in Alive :
    /\ IsOpen(a) /\ participants[b].ws = CLOSING
    /\ IssuedIds \ Alive # {}
    /\ \E d \in SignalFrames : (Get(d.obj, "to") = b /\ Handled(a, d).out = <<>>)
    /\ \E d \in SignalFrames : (/\ Get(d.obj, "to") \in IssuedIds \ Alive
                                  /\ Handled(a, d).out = <<>>)

\* C5: leave-room by a member p of room r removes p from r, sends
\* participant-left{p} to every remaining member of r (those whose transport
\* is open can be sent to), destroys r if it became empty, sets p's roomId to
\* null and sends room-left{r} to p; nothing else changes or is sent.
Thm_C5_LeaveRoomEffect ==
  \A p \in Alive :
    InRoom(p) =>
      LET r == participants[p].roomId
      IN  Outcome(Handled(p, LeaveFrame)) =
            [rooms |-> RoomsWithout(r, p),
             participants |-> [participants EXCEPT ![p].roomId = NULL],
             out |-> ToEach(OpenOf(SetDelete(rooms[r], p)),
                            [type |-> "participant-left", participantId |-> p])
                     \o ToOpen(p, [type |-> "room-left", roomId |-> r])]

\* A member leaves a room in which a member with an open transport remains
\* while the other room has a sole member who can leave it.
Wit_C5_LeaveWithRemainingMembers ==
  \E p \in Alive :
    /\ InRoom(p) /\ IsOpen(p)
    /\ Len(OpenOf(SetDelete(rooms[participants[p].roomId], p))) >= 1
    /\ Len(Handled(p, LeaveFrame).out) >= 2
    /\ \E q \in Alive : (InRoom(q) /\ Len(rooms[participants[q].roomId]) = 1)

\* A leave-room handled in state first, which has sent nothing yet, leaves it
\* as it is.
SecondLeaveDoesNothing(p, first) ==
  onMessage(first, p, ReadyState(p), LeaveFrame) = first

\* C6: a leave-room from a participant that is in no room changes no room or
\* participant state and sends nothing; in particular the second of two
\* consecutive leaves does nothing.
Thm_C6_LeaveIdempotent ==
  \A p \in Alive :
    /\ ~InRoom(p) => Handled(p, LeaveFrame) = Cur
    /\ SecondLeaveDoesNothing(p, [Handled(p, LeaveFrame) EXCEPT !.out = <<>>])

\* A participant that has joined a room under a nickname and left it again,
\* while others are still in a room.
Wit_C6_AlreadyLeft ==
  \E p, q \in Alive :
    /\ IsOpen(p) /\ ~InRoom(p) /\ participants[p].nickname = "alice"
    /\ InRoom(q)

\* C7: a join-room for r2 from a member of r1 (r2 = r1 included) first does a
\* complete leave of r1 (participant-left to the remaining members of r1, r1
\* destroyed if it became empty, room-left to the joiner) and only then adds
\* the participant to r2 and notifies r2; afterwards it is a member of r2 and
\* of no other room.
Thm_C7_JoinLeavesCurrentRoomFirst ==
  \A p \in Alive : \A d \in JoinFrames :
    InRoom(p) =>
      LET r1 == participants[p].roomId
          r2 == d.obj.roomId
          left == RoomsWithout(r1, p)
          before2 == IF r2 \in DOMAIN left THEN left[r2] ELSE <<>>
          joined == MapSet(left, r2, Append(before2, p))
      IN  /\ \A r \in DOMAIN joined : p \in Range(joined[r]) <=> r = r2
          /\ r1 # r2 /\ Len(rooms[r1]) = 1 => r1 \notin DOMAIN joined
          /\ Outcome(Handled(p, d)) =
                [rooms |-> joined,
                 participants |->
                   [participants EXCEPT ![p].roomId = r2, ![p].nickname = NickOf(d)],
                 out |->
                   ToEach(OpenOf(SetDelete(rooms[r1], p)),
                          [type |-> "participant-left", participantId |-> p])
                   \o ToOpen(p, [type |-> "room-left", roomId |-> r1])
                   \o ToOpen(p, [type |-> "room-joined", roomId |-> r2,
                                 participantId |-> p])
                   \o ToEach(OpenOf(before2),
                             [type |-> "participant-joined", participantId |-> p,
                              nickname |-> NickOf(d)])
                   \o (IF before2 # <<>>
                       THEN ToOpen(p, [type |-> "existing-participants",
                                       participants |-> Roster(before2)])
                       ELSE <<>>)]

\* A member of r1, which has another member, switches to the populated r2;
\* a sole member of a room can rejoin the same room.
Wit_C7_SwitchRoom ==
  \E p, q, o \in Alive :
    /\ p # q /\ IsOpen(p) /\ IsOpen(q) /\ IsOpen(o)
    /\ participants[p].roomId = "r1" /\ participants[q].roomId = "r1"
    /\ participants[o].roomId = "r2"
    /\ \E d \in JoinFrames : (d.obj.roomId = "r2" /\ Len(Handled(p, d).out) = 5)
    /\ \E d \in JoinFrames : (d.obj.roomId = "r2" /\ Len(Handled(o, d).out) = 2)

\* C8: every room in the room map has at least one member (a room exists from
\* the first join to its id until the step in which its last member leaves or
\* its last member's connection closes).
Thm_C8_NoEmptyRoom ==
  \A r \in DOMAIN rooms : Len(rooms[r]) >= 1

\* A room that was emptied by a leave or a close is gone while another room
\* lives on.
Wit_C8_RoomDestroyedWhenEmptied ==
  /\ DOMAIN rooms = {"r2"}
  /\ \E p \in Alive : participants[p].roomId = NULL /\ participants[p].nickname = "alice"
  /\ IssuedIds \ Alive # {}

\* C9: when a participant's transport closes, the directory does for it what
\* leave-room does (if it is in a room: removed from the room, participant-left
\* to the remaining members, room destroyed if emptied) and then deletes its
\* record; from then on the id is in no room, a signal addressed to it is
\* dropped, and any further message attributed to it is ignored.
Thm_C9_CloseLeavesThenForgets ==
  /\ \A p \in Alive :
        Outcome(Closed(p)) =
          [rooms |-> Handled(p, LeaveFrame).rooms,
           participants |-> MapDelete(participants, p),
           out |-> IF InRoom(p)
                   THEN ToEach(OpenOf(SetDelete(rooms[participants[p].roomId], p)),
                               [type |-> "participant-left", participantId |-> p])
                   ELSE <<>>]
  /\ \A p \in IssuedIds \ Alive :
        /\ \A r \in DOMAIN rooms : p \notin Range(rooms[r])
        /\ \A q \in Alive : \A d \in SignalFrames :
              Get(d.obj, "to") = p => Handled(q, d) = Cur
        /\ \A d \in Frames : Handled(p, d) = Cur

\* One connection has closed and its record is gone while a room still has
\* two members, one of which can close next and has the other to notify.
Wit_C9_ClosedWhileOthersRemain ==
  /\ IssuedIds \ Alive # {}
  /\ \E p, q \in Alive :
        /\ p # q /\ IsOpen(q) /\ participants[p].ws = CLOSING
        /\ participants[p].roomId = "r1" /\ participants[q].roomId = "r1"
        /\ Len(Closed(p).out) = 1

\* C10: every malformed inbound message (unparseable data, an unknown or
\* missing type, a join-room lacking its roomId) is answered with an error
\* message on the sending connection, which stays open and usable: its record
\* and the rooms are as before.
Cex_C10_EveryMalformedMessageAnswered ==
  \A p \in Alive : \A d \in UnparseableFrames \cup UnknownTypeFrames \cup BadJoinFrames :
    IsOpen(p) =>
      /\ Len(Handled(p, d).out) = 1
      /\ Handled(p, d).out[1].to = p
      /\ Delivered(Handled(p, d).out)[1].msg.type = "error"
      /\ "message" \in DOMAIN Delivered(Handled(p, d).out)[1].msg
      /\ Untouched(Handled(p, d))

(* ======================================================================= *)
(* The session client: class SignalingClient.  One action per call of the   *)
(* caller, per WebSocket event and per reconnect timer that runs.           *)
(* ======================================================================= *)

\* WebSockets one client creates in one run.
MaxSockets == 6

\* Sockets whose close event is still to come, and reconnect timers still to
\* run, at any one time.
MaxPending == 2

CONNECTING == "CONNECTING"

maxReconnectAttempts == 5

reconnectDelay == 1000

\* A callback of the caller (or the settling of a connect() promise) being
\* invoked with arguments args.
Call(handler, args) == [handler |-> handler, args |-> args]

\* A handler works on c, the client's fields together with the callbacks
\* invoked (calls) and the frames handed to ws.send (wire) so far.

\* WebSocket.close(): an open or connecting socket starts closing.
close(readyState) ==
  IF readyState \in {CONNECTING, OPEN} THEN CLOSING ELSE readyState

scheduleReconnect_linearDelay(c) ==
  LET attempts == c.reconnectAttempts + 1
  IN  [c EXCEPT !.reconnectAttempts = attempts,
                !.timers = Append(@, reconnectDelay * attempts)]

scheduleReconnect(c) ==
  LET attempts == c.reconnectAttempts + 1
      delay == reconnectDelay * 2^(attempts - 1)
  IN  [c EXCEPT !.reconnectAttempts = attempts,
                !.timers = Append(@, delay)]

\* Who holds the promises connect() returns.
CALLER == "caller"
TIMER == "timer"

\* resolve() or reject() of the promise made for socket t: the first of them
\* settles it towards its holder, any later one does nothing.
settle(c, t, how) ==
  IF t \in DOMAIN c.promises
  THEN [c EXCEPT !.calls = Append(@, Call(how, <<c.promises[t]>>)),
                 !.promises = MapDelete(@, t)]
  ELSE c

\* connect() called by holder, who gets the promise.
connect(c, holder) ==
  IF c.ws # NoSocket /\ c.sockets[c.ws] = OPEN
  THEN [c EXCEPT !.calls = Append(@, Call("resolve", <<holder>>))]
  ELSE IF c.isConnecting
  THEN [c EXCEPT !.calls = Append(@, Call("reject", <<holder>>))]
  ELSE [c EXCEPT !.isConnecting = TRUE,
                 !.isIntentionalClose = FALSE,
                 !.sockets = Append(@, CONNECTING),
                 !.ws = Len(c.sockets) + 1,
                 !.promises = MapSet(@, Len(c.sockets) + 1, holder)]

\* onopen without the reset of the reconnect counter.
onopen_keepsAttempts(c, t) ==
  settle([c EXCEPT !.isConnecting = FALSE,
                   !.calls = Append(@, Call("onConnected", <<>>))],
         t, "resolve")

\* this.ws.onopen of socket t
onopen(c, t) ==
  settle([c EXCEPT !.isConnecting = FALSE,
                   !.reconnectAttempts = 0,
                   !.calls = Append(@, Call("onConnected", <<>>))],
         t, "resolve")

onclose_noAttemptLimit(c) ==
  LET c1 == [c EXCEPT !.isConnecting = FALSE,
                      !.calls = Append(@, Call("onDisconnected", <<>>))]
  IN  IF ~c1.isIntentionalClose THEN scheduleReconnect(c1) ELSE c1

\* this.ws.onclose
onclose(c) ==
  LET c1 == [c EXCEPT !.isConnecting = FALSE,
                      !.calls = Append(@, Call("onDisconnected", <<>>))]
  IN  IF ~c1.isIntentionalClose /\ c1.reconnectAttempts < maxReconnectAttempts
      THEN scheduleReconnect(c1)
      ELSE c1

\* this.ws.onerror of socket t
onerror(c, t) == settle([c EXCEPT !.isConnecting = FALSE], t, "reject")

disconnect(c) ==
  LET c1 == [c EXCEPT !.isIntentionalClose = TRUE]
  IN  IF c1.ws # NoSocket
      THEN [c1 EXCEPT !.sockets[c1.ws] = close(@), !.ws = NoSocket]
      ELSE c1

clientSendMessage_ignoresReadyState(c, message) ==
  IF c.ws # NoSocket
  THEN [c EXCEPT !.wire = Append(@, [socket |-> c.ws, data |-> JSONstringify(message)])]
  ELSE c

\* SignalingClient.sendMessage
clientSendMessage(c, message) ==
  IF c.ws # NoSocket /\ c.sockets[c.ws] = OPEN
  THEN [c EXCEPT !.wire = Append(@, [socket |-> c.ws, data |-> JSONstringify(message)])]
  ELSE c

joinRoom(c, roomId, nickname) ==
  clientSendMessage(c, [type |-> "join-room", roomId |-> roomId, nickname |-> nickname])

leaveRoom(c) == clientSendMessage(c, [type |-> "leave-room"])

sendSignal(c, to, signal) ==
  clientSendMessage(c, [type |-> "signal", to |-> to, signal |-> signal])

\* SignalingClient.handleMessage: one callback per known message type.
clientHandleMessage(c, message) ==
  LET type == Get(message, "type")
      invoke(handler, args) == [c EXCEPT !.calls = Append(@, Call(handler, args))]
  IN  CASE type = "connected" -> c
        [] type = "room-joined" ->
             invoke("onRoomJoined", <<Get(message, "roomId"), Get(message, "participantId")>>)
        [] type = "room-left" -> invoke("onRoomLeft", <<Get(message, "roomId")>>)
        [] type = "participant-joined" ->
             invoke("onParticipantJoined",
                    <<[participantId |-> Get(message, "participantId"),
                       nickname |-> Get(message, "nickname")]>>)
        [] type = "participant-left" ->
             invoke("onParticipantLeft", <<Get(message, "participantId")>>)
        [] type = "existing-participants" ->
             invoke("onExistingParticipants", <<Get(message, "participants")>>)
        [] type = "signal" ->
             invoke("onSignalReceived", <<Get(message, "from"), Get(message, "signal")>>)
        [] type = "error" -> invoke("onError", <<Get(message, "message")>>)
        [] OTHER -> c

\* this.ws.onmessage: a frame that does not parse, or parses to null, throws
\* inside the try and is only logged.
onmessage(c, data) ==
  LET parsed == JSONparse(data)
  IN  IF parsed.threw \/ parsed.isNull THEN c
      ELSE clientHandleMessage(c, parsed.obj)

(* --------------------------------------------------------- client inputs *)

\* Frames the directory sends, as its JSON.stringify writes them, and one
\* that does not parse.
ServerFrames ==
  {JSONstringify([type |-> "error", message |-> "Invalid message format"]),
   JSONstringify([type |-> "signal", from |-> Uuids[2], signal |-> SDP]),
   [k |-> "garbage"]}

\* What the caller asks the client to send.
Requests ==
  {[type |-> "join-room", roomId |-> "r1", nickname |-> "alice"],
   [type |-> "leave-room"],
   [type |-> "signal", to |-> Uuids[2], signal |-> UNDEFINED]}

(* -------------------------------------------------------- client actions *)

\* The client's fields as the handlers see them, nothing invoked or sent yet.
Client ==
  [ws |-> ws, sockets |-> sockets, reconnectAttempts |-> reconnectAttempts,
   isConnecting |-> isConnecting, isIntentionalClose |-> isIntentionalClose,
   timers |-> timers, promises |-> promises, calls |-> <<>>, wire |-> <<>>]

\* The run stays within the bounds.
Within(c) ==
  /\ Len(c.sockets) <= MaxSockets
  /\ Cardinality({t \in 1..Len(c.sockets) : c.sockets[t] # CLOSED}) <= MaxPending
  /\ Len(c.timers) <= MaxPending

ClientCommit(c) ==
  /\ Within(c)
  /\ ws' = c.ws
  /\ sockets' = c.sockets
  /\ reconnectAttempts' = c.reconnectAttempts
  /\ isConnecting' = c.isConnecting
  /\ isIntentionalClose' = c.isIntentionalClose
  /\ timers' = c.timers
  /\ promises' = c.promises

\* The caller calls connect().
CallConnect ==
  /\ ClientCommit(connect(Client, CALLER))
  /\ callerClosed' = FALSE
  /\ unintended' = 0
  /\ UNCHANGED <<serverVars, rtcVars>>

\* The caller calls disconnect().
CallDisconnect ==
  /\ ClientCommit(disconnect(Client))
  /\ callerClosed' = TRUE
  /\ unintended' = 0
  /\ UNCHANGED <<serverVars, rtcVars>>

\* The request as the caller's call of joinRoom, leaveRoom or sendSignal.
Requested(c, message) ==
  CASE message.type = "join-room" -> joinRoom(c, message.roomId, message.nickname)
    [] message.type = "leave-room" -> leaveRoom(c)
    [] message.type = "signal" -> sendSignal(c, message.to, message.signal)

\* The caller calls joinRoom, leaveRoom or sendSignal.
CallSend(message) ==
  /\ ClientCommit(Requested(Client, message))
  /\ UNCHANGED <<callerClosed, unintended, serverVars, rtcVars>>

\* Timer i can be the next to run: no timer set before it has a delay that
\* ends sooner.
Due(i) == \A j \in 1..(i - 1) : timers[j] > timers[i]

\* The setTimeout callback of scheduleReconnect runs: this.connect().
TimerFired(i) ==
  connect([Client EXCEPT !.timers = SubSeq(@, 1, i - 1) \o SubSeq(@, i + 1, Len(@))],
          TIMER)

ReconnectTimer(i) ==
  /\ Due(i)
  /\ ClientCommit(TimerFired(i))
  /\ UNCHANGED <<callerClosed, unintended, serverVars, rtcVars>>

\* The handshake of socket t succeeds: readyState OPEN, then onopen.
Opened(t) == onopen([Client EXCEPT !.sockets[t] = OPEN], t)

TransportOpens(t) ==
  /\ sockets[t] = CONNECTING
  /\ ClientCommit(Opened(t))
  /\ UNCHANGED <<callerClosed, unintended, serverVars, rtcVars>>

\* The count of unintended closes after one more close event, kept only up
\* to the number the client is meant to tolerate.
Seen ==
  IF isIntentionalClose \/ callerClosed \/ unintended = maxReconnectAttempts
  THEN unintended ELSE unintended + 1

\* Socket t fails (handshake refused, connection lost, or closed before it
\* was established): readyState CLOSED, then the error and close events.
Failed(t) == onclose(onerror([Client EXCEPT !.sockets[t] = CLOSED], t))

TransportFails(t) ==
  /\ sockets[t] # CLOSED
  /\ ClientCommit(Failed(t))
  /\ unintended' = Seen
  /\ UNCHANGED <<callerClosed, serverVars, rtcVars>>

\* The closing handshake of socket t, which had opened, ends: readyState
\* CLOSED, then onclose.
Shut(t) == onclose([Client EXCEPT !.sockets[t] = CLOSED])

TransportCloses(t) ==
  /\ sockets[t] \in {OPEN, CLOSING}
  /\ t \notin DOMAIN promises
  /\ ClientCommit(Shut(t))
  /\ unintended' = Seen
  /\ UNCHANGED <<callerClosed, serverVars, rtcVars>>

\* A frame arrives on socket t.
MessageArrives(t, data) ==
  /\ sockets[t] \in {OPEN, CLOSING}
  /\ ClientCommit(onmessage(Client, data))
  /\ UNCHANGED <<callerClosed, unintended, serverVars, rtcVars>>

NextClient ==
  \/ CallConnect
  \/ CallDisconnect
  \/ \E message \in Requests : CallSend(message)
  \/ \E i \in 1..Len(timers) : ReconnectTimer(i)
  \/ \E t \in 1..Len(sockets) : TransportOpens(t)
  \/ \E t \in 1..Len(sockets) : TransportFails(t)
  \/ \E t \in 1..Len(sockets) : TransportCloses(t)
  \/ \E t \in 1..Len(sockets) : \E data \in ServerFrames : MessageArrives(t, data)

SpecClient == Init /\ [][NextClient]_vars

(* --------------------------------------------------------- client claims *)

\* Sockets that are connecting or open.
Live == {t \in 1..Len(sockets) : sockets[t] \in {CONNECTING, OPEN}}

\* C11: an intentional disconnect() suppresses reconnection in every state,
\* also while a reconnect timer is pending: as long as the caller's latest
\* call is disconnect() (the step is not a connect() of the caller), no
\* step creates a WebSocket.
Cex_C11_NoTransportAfterDisconnect ==
  [][callerClosed /\ callerClosed' => Len(sockets') = Len(sockets)]_vars

\* C12: at most one transport created by the client is connecting or open at
\* any time, under every interleaving of connect(), disconnect(), transport
\* events (late close events of replaced sockets included) and reconnect
\* timers.
Cex_C12_AtMostOneLiveTransport == Cardinality(Live) <= 1

\* A step in which socket t opens.
Opens(t) == t \in DOMAIN sockets /\ sockets[t] = CONNECTING /\ sockets'[t] = OPEN

\* C13 (as claimed): once 5 unintended closes have been seen in a row with no
\* disconnect() of the caller, whether or not transports opened in between,
\* no step schedules another reconnect.
Cex_C13_NoRetryAfterFiveCloses ==
  [][unintended >= maxReconnectAttempts => Len(timers') <= Len(timers)]_vars

\* C13 (amended): a reconnect is scheduled only while fewer than 5 have been
\* scheduled since the last successful open: scheduling takes the counter
\* from below 5 one up, and the counter changes in no other way than by a
\* transport opening, which resets it to 0.  With the counter at 5 nothing
\* is scheduled until a transport opens.
Thm_C13_RetriesBoundedSinceLastOpen ==
  [][/\ Len(timers') > Len(timers) =>
          /\ reconnectAttempts < maxReconnectAttempts
          /\ reconnectAttempts' = reconnectAttempts + 1
     /\ reconnectAttempts' # reconnectAttempts =>
          \/ Len(timers') > Len(timers)
          \/ reconnectAttempts' = 0 /\ \E t \in DOMAIN sockets : Opens(t)
    ]_vars

\* Five reconnects in a row were scheduled and failed; nothing is pending.
Wit_C13_RetriesExhausted ==
  /\ reconnectAttempts = maxReconnectAttempts
  /\ ~isIntentionalClose
  /\ timers = <<>>
  /\ Len(sockets) = maxReconnectAttempts + 1
  /\ \A t \in DOMAIN sockets : sockets[t] = CLOSED

\* The callbacks of calls tell the caller of an error: its onError handler
\* is invoked, or a promise it holds is rejected.
Surfaced(calls) ==
  \E i \in 1..Len(calls) :
    \/ calls[i].handler = "onError"
    \/ calls[i].handler = "reject" /\ calls[i].args = <<CALLER>>

\* C14: when a socket closes unintendedly with the reconnect counter at its
\* maximum, so that no further reconnect is scheduled, the close tells the
\* caller of a terminal error.  (The client has no field that could hold a
\* terminal state; what reaches the caller is the callbacks invoked.)
Cex_C14_ExhaustionSurfaced ==
  \A t \in DOMAIN sockets :
    (/\ sockets[t] # CLOSED
     /\ ~isIntentionalClose
     /\ reconnectAttempts = maxReconnectAttempts)
    => Surfaced(Failed(t).calls)

\* The current transport is open.
Connectable == ws # NoSocket /\ sockets[ws] = OPEN

\* The frame that carries message: its defined properties, compact.
FrameOf(message) ==
  Obj("compact", [f \in {g \in DOMAIN message : message[g] # UNDEFINED} |-> message[f]])

\* C15: joinRoom, leaveRoom and sendSignal put their one frame on the current
\* transport when it is open; otherwise they send nothing and keep nothing
\* (every field of the client is as before, so there is nothing to send
\* later).  No other operation (connect, disconnect, a transport opening,
\* failing or closing, a reconnect timer, an incoming frame) puts anything
\* on the wire, so a dropped message is never transmitted after a reconnect.
Thm_C15_SendOnlyWhenOpenNeverQueued ==
  /\ \A message \in Requests :
       Requested(Client, message) =
         [Client EXCEPT !.wire = IF Connectable
                                 THEN <<[socket |-> ws, data |-> FrameOf(message)]>>
                                 ELSE <<>>]
  /\ connect(Client, CALLER).wire = <<>>
  /\ disconnect(Client).wire = <<>>
  /\ \A i \in 1..Len(timers) : TimerFired(i).wire = <<>>
  /\ \A t \in DOMAIN sockets :
       /\ sockets[t] = CONNECTING => Opened(t).wire = <<>>
       /\ sockets[t] # CLOSED => Failed(t).wire = <<>> /\ Shut(t).wire = <<>>
       /\ \A data \in ServerFrames : onmessage(Client, data).wire = <<>>

\* The transport has closed and a reconnect is pending: requests made now
\* are dropped.
Wit_C15_ClosedAwaitingReconnect ==
  /\ ws # NoSocket
  /\ sockets[ws] = CLOSED
  /\ timers # <<>>

\* The lifecycle state the client's fields amount to.
Phase ==
  IF isIntentionalClose THEN "Closed"
  ELSE IF Connectable THEN "Connected"
  ELSE IF isConnecting THEN "Connecting"
  ELSE IF timers # <<>> THEN "Reconnecting"
  ELSE "Disconnected"

\* C16: the lifecycle state changes only along Disconnected -> Connecting,
\* Connecting -> Connected, Connected -> Reconnecting, Reconnecting ->
\* Connecting, Reconnecting -> Disconnected once the maximum is reached, and
\* to Closed by disconnect(); Closed is left only by a connect() of the
\* caller.  No other change of state happens.
Cex_C16_OnlyListedTransitions ==
  [][\/ Phase' = Phase
     \/ Phase = "Disconnected" /\ Phase' = "Connecting"
     \/ Phase = "Connecting" /\ Phase' = "Connected"
     \/ Phase = "Connected" /\ Phase' = "Reconnecting"
     \/ Phase = "Reconnecting" /\ Phase' = "Connecting"
     \/ /\ Phase = "Reconnecting" /\ Phase' = "Disconnected"
        /\ reconnectAttempts' = maxReconnectAttempts
     \/ Phase' = "Closed" /\ callerClosed'
     \/ Phase = "Closed" /\ Phase' = "Connecting" /\ ~callerClosed'
    ]_vars

\* The caller's latest call is disconnect(), yet the client is connecting:
\* a reconnect timer set before the disconnect() has run connect().
Wit_C16_ClosedLeftByStaleTimer ==
  /\ callerClosed
  /\ Phase = "Connecting"
  /\ ws \in DOMAIN promises
  /\ promises[ws] = TIMER

\* The delay in ms before reconnect attempt n, n = 1..5.
Backoff == <<1000, 2000, 4000, 8000, 16000>>

\* C17: the reconnect scheduled as attempt n, counted since the last
\* successful open, waits 1000 * 2^(n-1) ms: 1000, 2000, 4000, 8000, 16000
\* for n = 1..5, and no attempt beyond the fifth is ever scheduled.  Every
\* close event that schedules a reconnect takes the counter from n-1 to n
\* and sets one timer of Backoff[n]; with the counter at 5, or after
\* disconnect(), it sets none; an open resets the counter to 0.
Thm_C17_BackoffDoubles ==
  /\ reconnectAttempts \in 0..5
  /\ \A i \in DOMAIN timers : timers[i] \in Range(Backoff)
  /\ \A t \in DOMAIN sockets :
       /\ sockets[t] = CONNECTING => Opened(t).reconnectAttempts = 0
       /\ sockets[t] # CLOSED =>
            LET c == Failed(t)
            IN  IF ~isIntentionalClose /\ reconnectAttempts < 5
                THEN /\ c.reconnectAttempts = reconnectAttempts + 1
                     /\ c.timers = Append(timers, Backoff[reconnectAttempts + 1])
                ELSE /\ c.reconnectAttempts = reconnectAttempts
                     /\ c.timers = timers

\* The fifth reconnect is pending, after the fourth attempt has failed.
Wit_C17_FifthAttemptPending ==
  /\ reconnectAttempts = 5
  /\ timers = <<16000>>
  /\ ~isIntentionalClose

(* ======================================================================= *)
(* The peer connection orchestrator: class WebRTCManager with the           *)
(* AudioManager it is given.  One action per method called by the Room      *)
(* component and per event of a SimplePeer object.                          *)
(* ======================================================================= *)

\* SimplePeer objects one manager creates in one run.
MaxPeers == 2

\* Remote participants the manager hears of.
PeerIds == {Uuids[1], Uuids[2]}

\* connection.stream of a record that has received none.
NoStream == 0

\* A method works on m, the fields of the manager and of its AudioManager
\* together with the callbacks invoked so far (calls) and whether the method
\* threw (threw).

\* Map.has on the insertion-ordered connections map.
Has(conns, peerId) == \E i \in 1..Len(conns) : conns[i].id = peerId

\* Position of the entry of peerId in the connections map.
Slot(conns, peerId) == CHOOSE i \in 1..Len(conns) : conns[i].id = peerId

\* Map.set: a new key goes last, a known key keeps its place and gets the
\* new value.
ConnSet(conns, connection) ==
  IF Has(conns, connection.id)
  THEN [conns EXCEPT ![Slot(conns, connection.id)] = connection]
  ELSE Append(conns, connection)

\* Map.delete
ConnDelete(conns, peerId) == SelectSeq(conns, LAMBDA x : x.id # peerId)

\* The listeners of SimplePeer object k close over one PeerConnection
\* object; that object is in the map as long as the entry of its peer id
\* still names k.
Stored(m, k) ==
  /\ Has(m.connections, m.peers[k].id)
  /\ m.connections[Slot(m.connections, m.peers[k].id)].peer = k

\* An assignment to a field of the PeerConnection object of k shows in the
\* map only while that object is stored there.
SetField(m, k, field, value) ==
  IF Stored(m, k)
  THEN [m EXCEPT !.connections[Slot(m.connections, m.peers[k].id)][field] = value]
  ELSE m

Notify(m, handler, args) == [m EXCEPT !.calls = Append(@, Call(handler, args))]

\* AudioManager.addRemoteStream
addRemoteStream(m, peerId, stream) == [m EXCEPT !.remoteStreams = MapSet(@, peerId, stream)]

\* AudioManager.removeRemoteStream
removeRemoteStream(m, peerId) ==
  IF peerId \in DOMAIN m.remoteStreams
  THEN [m EXCEPT !.remoteStreams = MapDelete(@, peerId)]
  ELSE m

\* peer.on('connect')
onPeerConnect(m, k) ==
  Notify(SetField(m, k, "isConnected", TRUE),
         "onConnectionStateChange", <<m.peers[k].id, "connected">>)

\* peer.on('stream'): the stream is named after the object it came from.
onPeerStream(m, k) ==
  Notify(addRemoteStream(SetField(m, k, "stream", k), m.peers[k].id, k),
         "onStreamReceived", <<m.peers[k].id, k>>)

\* peer.on('close')
onPeerClose(m, k) ==
  removeRemoteStream(
    Notify(SetField(m, k, "isConnected", FALSE),
           "onConnectionStateChange", <<m.peers[k].id, "disconnected">>),
    m.peers[k].id)

\* peer.on('error')
onPeerError(m, k) == Notify(m, "onConnectionStateChange", <<m.peers[k].id, "error">>)

\* peer.on('signal')
onPeerSignal(m, k, data) ==
  Notify(m, "onSignal",
         <<[from |-> "local", to |-> m.peers[k].id, signal |-> data,
            callId |-> m.peers[k].callId, type |-> Get(data, "type")]>>)

\* peer.destroy(): a live object is destroyed and emits close; a destroyed
\* one does nothing.
destroy(m, k) ==
  IF m.peers[k].destroyed THEN m
  ELSE onPeerClose([m EXCEPT !.peers[k].destroyed = TRUE], k)

\* WebRTCManager.initialize, audioManager.initialize() succeeding.
initialize(m) == [m EXCEPT !.isInitialized = TRUE]

createConnection_storesBeforeStreamCheck(m, peerId, isInitiator, callId) ==
  IF ~m.isInitialized
  THEN [m EXCEPT !.threw = TRUE]
  ELSE LET k == Len(m.peers) + 1
           connection == [id |-> peerId, peer |-> k, stream |-> NoStream,
                          isConnected |-> FALSE, isInitiator |-> isInitiator]
       IN  [m EXCEPT !.peers = Append(@, [id |-> peerId, callId |-> callId,
                                          initiator |-> isInitiator,
                                          destroyed |-> FALSE]),
                     !.connections = ConnSet(@, connection),
                     !.threw = ~m.localStream]

\* createConnection without the isInitialized test.
createConnection_noInitCheck(m, peerId, isInitiator, callId) ==
  IF ~m.localStream
  THEN [m EXCEPT !.threw = TRUE]
  ELSE LET k == Len(m.peers) + 1
           connection == [id |-> peerId, peer |-> k, stream |-> NoStream,
                          isConnected |-> FALSE, isInitiator |-> isInitiator]
       IN  [m EXCEPT !.peers = Append(@, [id |-> peerId, callId |-> callId,
                                          initiator |-> isInitiator,
                                          destroyed |-> FALSE]),
                     !.connections = ConnSet(@, connection)]

\* createConnection storing a record that counts as connected at once.
createConnection_bornConnected(m, peerId, isInitiator, callId) ==
  IF ~m.isInitialized \/ ~m.localStream
  THEN [m EXCEPT !.threw = TRUE]
  ELSE LET k == Len(m.peers) + 1
           connection == [id |-> peerId, peer |-> k, stream |-> NoStream,
                          isConnected |-> TRUE, isInitiator |-> isInitiator]
       IN  [m EXCEPT !.peers = Append(@, [id |-> peerId, callId |-> callId,
                                          initiator |-> isInitiator,
                                          destroyed |-> FALSE]),
                     !.connections = ConnSet(@, connection)]

createConnection(m, peerId, isInitiator, callId) ==
  IF ~m.isInitialized \/ ~m.localStream
  THEN [m EXCEPT !.threw = TRUE]
  ELSE LET k == Len(m.peers) + 1
           connection == [id |-> peerId, peer |-> k, stream |-> NoStream,
                          isConnected |-> FALSE, isInitiator |-> isInitiator]
       IN  [m EXCEPT !.peers = Append(@, [id |-> peerId, callId |-> callId,
                                          initiator |-> isInitiator,
                                          destroyed |-> FALSE]),
                     !.connections = ConnSet(@, connection)]

\* WebRTCManager.handleSignal: peer.signal throws on a destroyed object, and
\* the throw is caught and logged.
rtcHandleSignal_createsRecord(m, signalData) ==
  IF ~Has(m.connections, signalData.from)
  THEN createConnection(m, signalData.from, FALSE, signalData.callId)
  ELSE LET k == m.connections[Slot(m.connections, signalData.from)].peer
       IN  IF m.peers[k].destroyed THEN m
           ELSE Notify(m, "peer.signal", <<k, signalData.signal>>)

rtcHandleSignal(m, signalData) ==
  IF ~Has(m.connections, signalData.from) THEN m
  ELSE LET k == m.connections[Slot(m.connections, signalData.from)].peer
       IN  IF m.peers[k].destroyed THEN m
           ELSE Notify(m, "peer.signal", <<k, signalData.signal>>)

closeConnection_keepsRecord(m, peerId) ==
  IF Has(m.connections, peerId)
  THEN removeRemoteStream(
         destroy(m, m.connections[Slot(m.connections, peerId)].peer), peerId)
  ELSE m

closeConnection(m, peerId) ==
  IF Has(m.connections, peerId)
  THEN LET m1 == destroy(m, m.connections[Slot(m.connections, peerId)].peer)
       IN  removeRemoteStream([m1 EXCEPT !.connections = ConnDelete(@, peerId)], peerId)
  ELSE m

\* this.connections.forEach of closeAllConnections, from entry i on.
RECURSIVE destroyEach(_, _)
destroyEach(m, i) ==
  IF i > Len(m.connections) THEN m
  ELSE destroyEach(removeRemoteStream(destroy(m, m.connections[i].peer),
                                     m.connections[i].id),
                   i + 1)

closeAllConnections(m) == [destroyEach(m, 1) EXCEPT !.connections = <<>>]

\* WebRTCManager.getConnectedPeerCount
getConnectedPeerCount(m) ==
  Len(SelectSeq(m.connections, LAMBDA conn : conn.isConnected))

\* WebRTCManager.cleanup
cleanup(m) == [closeAllConnections(m) EXCEPT !.isInitialized = FALSE]

\* Date.now() as JSON.stringify writes it.
NOW == "now"

\* WebRTCManager.handleDataChannelMessage: every branch only logs.
handleDataChannelMessage(m, peerId, message) ==
  LET type == Get(message, "type")
  IN  CASE type = "mute-status" ->
             Notify(m, "console.log mute status", <<peerId, Get(message, "isMuted")>>)
        [] type = "audio-level" ->
             Notify(m, "console.log audio level", <<peerId, Get(message, "level")>>)
        [] OTHER -> Notify(m, "console.log unknown message type", <<peerId>>)

\* peer.on('data'): a frame that does not parse, or parses to null, throws
\* inside the try and is only logged.
onPeerData_uncaughtParseError(m, k, data) ==
  LET parsed == JSONparse(data)
  IN  IF parsed.threw \/ parsed.isNull
      THEN [m EXCEPT !.threw = TRUE]
      ELSE handleDataChannelMessage(m, m.peers[k].id, parsed.obj)

onPeerData(m, k, data) ==
  LET parsed == JSONparse(data)
  IN  IF parsed.threw \/ parsed.isNull
      THEN Notify(m, "console.error", <<m.peers[k].id>>)
      ELSE handleDataChannelMessage(m, m.peers[k].id, parsed.obj)

\* WebRTCManager.sendDataChannelMessage: peer.send throws on a destroyed
\* object, and the throw is caught and logged.
sendDataChannelMessage_ignoresIsConnected(m, peerId, message) ==
  IF ~Has(m.connections, peerId)
  THEN Notify(m, "console.warn", <<peerId>>)
  ELSE LET k == m.connections[Slot(m.connections, peerId)].peer
       IN  IF m.peers[k].destroyed THEN Notify(m, "console.error", <<peerId>>)
           ELSE Notify(m, "peer.send", <<k, JSONstringify(message)>>)

sendDataChannelMessage(m, peerId, message) ==
  IF ~Has(m.connections, peerId)
     \/ ~m.connections[Slot(m.connections, peerId)].isConnected
  THEN Notify(m, "console.warn", <<peerId>>)
  ELSE LET k == m.connections[Slot(m.connections, peerId)].peer
       IN  IF m.peers[k].destroyed THEN Notify(m, "console.error", <<peerId>>)
           ELSE Notify(m, "peer.send", <<k, JSONstringify(message)>>)

\* this.connections.forEach of a broadcast, from entry i on: message goes
\* to the entries that are connected.
RECURSIVE broadcastEach(_, _, _)
broadcastEach_toEveryRecord(m, message, i) ==
  IF i > Len(m.connections) THEN m
  ELSE broadcastEach(sendDataChannelMessage(m, m.connections[i].id, message),
                     message, i + 1)

broadcastEach(m, message, i) ==
  IF i > Len(m.connections) THEN m
  ELSE broadcastEach(IF m.connections[i].isConnected
                     THEN sendDataChannelMessage(m, m.connections[i].id, message)
                     ELSE m,
                     message, i + 1)

broadcastMuteStatus(m, isMuted) ==
  broadcastEach(m, [type |-> "mute-status", isMuted |-> isMuted, timestamp |-> NOW], 1)

broadcastAudioLevel(m, level) ==
  broadcastEach(m, [type |-> "audio-level", level |-> level, timestamp |-> NOW], 1)

(* ---------------------------------------------------- orchestrator inputs *)

\* Negotiation payloads a SimplePeer object emits or is given.
Signals == {[type |-> "offer"], [type |-> "answer"]}

\* The room id the Room component passes as callId.
CallId == "r1"

\* isMuted and level as JSON.stringify writes them.
MuteValues == {"true", "false"}
Levels == {"0.5"}

\* Control messages the application sends to one peer.
ControlMessages ==
  {[type |-> "mute-status", isMuted |-> "true", timestamp |-> NOW],
   [type |-> "chat"]}

\* Frames arriving on a data channel: the two control messages, a message of
\* another type, one without a type, a number, the literal null, and
\* unparseable text.
DataFrames ==
  {JSONstringify([type |-> "mute-status", isMuted |-> "true", timestamp |-> NOW]),
   JSONstringify([type |-> "audio-level", level |-> "0.5", timestamp |-> NOW]),
   JSONstringify([type |-> "chat"]),
   JSONstringify([isMuted |-> "true"]),
   [k |-> "scalar"],
   [k |-> "null"],
   [k |-> "garbage"]}

(* --------------------------------------------------- orchestrator actions *)

\* The manager's fields as the methods see them, nothing invoked yet.
Rtc ==
  [isInitialized |-> isInitialized, connections |-> connections, peers |-> peers,
   localStream |-> localStream, remoteStreams |-> remoteStreams,
   calls |-> <<>>, threw |-> FALSE]

RtcCommit(m) ==
  /\ Len(m.peers) <= MaxPeers
  /\ isInitialized' = m.isInitialized
  /\ connections' = m.connections
  /\ peers' = m.peers
  /\ localStream' = m.localStream
  /\ remoteStreams' = m.remoteStreams

\* The Room component calls initialize().
CallInitialize ==
  /\ RtcCommit(initialize(Rtc))
  /\ UNCHANGED <<serverVars, clientVars>>

\* AudioManager.getUserAudioStream succeeds.
LocalStreamAcquired ==
  /\ RtcCommit([Rtc EXCEPT !.localStream = TRUE])
  /\ UNCHANGED <<serverVars, clientVars>>

\* AudioManager.cleanup: stopAllStreams drops the local and remote streams.
AudioCleanup ==
  /\ RtcCommit([Rtc EXCEPT !.localStream = FALSE, !.remoteStreams = <<>>])
  /\ UNCHANGED <<serverVars, clientVars>>

CallCreateConnection(peerId, isInitiator) ==
  /\ RtcCommit(createConnection(Rtc, peerId, isInitiator, CallId))
  /\ UNCHANGED <<serverVars, clientVars>>

CallHandleSignal(from, signal) ==
  /\ RtcCommit(rtcHandleSignal(Rtc, [from |-> from, to |-> "", signal |-> signal,
                                     callId |-> CallId, type |-> signal.type]))
  /\ UNCHANGED <<serverVars, clientVars>>

CallCloseConnection(peerId) ==
  /\ RtcCommit(closeConnection(Rtc, peerId))
  /\ UNCHANGED <<serverVars, clientVars>>

CallCloseAllConnections ==
  /\ RtcCommit(closeAllConnections(Rtc))
  /\ UNCHANGED <<serverVars, clientVars>>

CallCleanup ==
  /\ RtcCommit(cleanup(Rtc))
  /\ UNCHANGED <<serverVars, clientVars>>

\* A live SimplePeer object emits connect, stream or signal.
PeerConnects(k) ==
  /\ ~peers[k].destroyed
  /\ RtcCommit(onPeerConnect(Rtc, k))
  /\ UNCHANGED <<serverVars, clientVars>>

PeerStreams(k) ==
  /\ ~peers[k].destroyed
  /\ RtcCommit(onPeerStream(Rtc, k))
  /\ UNCHANGED <<serverVars, clientVars>>

PeerSignals(k, data) ==
  /\ ~peers[k].destroyed
  /\ RtcCommit(onPeerSignal(Rtc, k, data))
  /\ UNCHANGED <<serverVars, clientVars>>

\* The link of object k fails: SimplePeer destroys the object, emitting
\* error and then close.
PeerFailed(k) == onPeerClose(onPeerError([Rtc EXCEPT !.peers[k].destroyed = TRUE], k), k)

PeerFails(k) ==
  /\ ~peers[k].destroyed
  /\ RtcCommit(PeerFailed(k))
  /\ UNCHANGED <<serverVars, clientVars>>

\* The remote end closes the link of object k: the object is destroyed and
\* emits close.
PeerCloses(k) ==
  /\ ~peers[k].destroyed
  /\ RtcCommit(destroy(Rtc, k))
  /\ UNCHANGED <<serverVars, clientVars>>

\* A live, connected SimplePeer object emits data.
PeerData(k, data) ==
  /\ ~peers[k].destroyed
  /\ RtcCommit(onPeerData(Rtc, k, data))
  /\ UNCHANGED <<serverVars, clientVars>>

CallSendDataChannelMessage(peerId, message) ==
  /\ RtcCommit(sendDataChannelMessage(Rtc, peerId, message))
  /\ UNCHANGED <<serverVars, clientVars>>

CallBroadcastMuteStatus(isMuted) ==
  /\ RtcCommit(broadcastMuteStatus(Rtc, isMuted))
  /\ UNCHANGED <<serverVars, clientVars>>

CallBroadcastAudioLevel(level) ==
  /\ RtcCommit(broadcastAudioLevel(Rtc, level))
  /\ UNCHANGED <<serverVars, clientVars>>

NextRtc ==
  \/ CallInitialize
  \/ LocalStreamAcquired
  \/ AudioCleanup
  \/ \E peerId \in PeerIds : \E isInitiator \in BOOLEAN :
       CallCreateConnection(peerId, isInitiator)
  \/ \E from \in PeerIds : \E signal \in Signals : CallHandleSignal(from, signal)
  \/ \E peerId \in PeerIds : CallCloseConnection(peerId)
  \/ CallCloseAllConnections
  \/ CallCleanup
  \/ \E k \in 1..Len(peers) : PeerConnects(k)
  \/ \E k \in 1..Len(peers) : PeerStreams(k)
  \/ \E k \in 1..Len(peers) : \E data \in Signals : PeerSignals(k, data)
  \/ \E k \in 1..Len(peers) : PeerFails(k)
  \/ \E k \in 1..Len(peers) : PeerCloses(k)
  \/ \E k \in 1..Len(peers) : \E data \in DataFrames : PeerData(k, data)
  \/ \E peerId \in PeerIds : \E message \in ControlMessages :
       CallSendDataChannelMessage(peerId, message)
  \/ \E isMuted \in MuteValues : CallBroadcastMuteStatus(isMuted)
  \/ \E level \in Levels : CallBroadcastAudioLevel(level)

SpecRtc == Init /\ [][NextRtc]_vars

(* ======================================================================= *)
(* The Room component: what it does with the manager when the signalling    *)
(* client invokes its callbacks.                                            *)
(* ======================================================================= *)

\* The manager the Room component holds once initWebRTC has run and the
\* local audio stream is acquired, before any connection is created.
ReadyManager ==
  [initialize([isInitialized |-> FALSE, connections |-> <<>>, peers |-> <<>>,
               localStream |-> FALSE, remoteStreams |-> <<>>,
               calls |-> <<>>, threw |-> FALSE])
     EXCEPT !.localStream = TRUE]

onParticipantJoined_asResponder(m, roomId, participant) ==
  createConnection(m, participant.participantId, FALSE, roomId)

\* signalingClient.onParticipantJoined handler
onParticipantJoined(m, roomId, participant) ==
  createConnection(m, participant.participantId, TRUE, roomId)

\* onParticipantLeft only updating the participant list.
onParticipantLeft_listOnly(m, participantId) == m

\* signalingClient.onParticipantLeft handler
onParticipantLeft(m, participantId) == closeConnection(m, participantId)

\* signalingClient.onExistingParticipants handler: participants.forEach
RECURSIVE onExistingParticipants(_, _, _)

\* onExistingParticipants leaving the connections to be created later.
onExistingParticipants_deferred(m, roomId, existing) == m

onExistingParticipants(m, roomId, existing) ==
  IF existing = <<>> THEN m
  ELSE onExistingParticipants(
         createConnection(m, Head(existing).participantId, FALSE, roomId),
         roomId, Tail(existing))

\* signal.type || 'unknown' of a payload as it arrives from the directory:
\* the opaque payload SDP stands for an offer object.
SignalType(signal) == IF signal = SDP THEN "offer" ELSE "unknown"

\* signalingClient.onSignalReceived handler
onSignalReceived(m, roomId, from, signal) ==
  rtcHandleSignal(m, [from |-> from, to |-> UNDEFINED, signal |-> signal,
                      callId |-> roomId, type |-> SignalType(signal)])

\* handleSignalData, the manager's onSignal callback, on an assigned client.
handleSignalData(c, signalData) ==
  IF ~Falsy(signalData.to) THEN sendSignal(c, signalData.to, signalData.signal)
  ELSE c

\* The handler the Room component registered for one callback of the client,
\* for the callbacks that reach the manager.
RoomReacts(m, roomId, call) ==
  CASE call.handler = "onParticipantJoined" -> onParticipantJoined(m, roomId, call.args[1])
    [] call.handler = "onParticipantLeft" -> onParticipantLeft(m, call.args[1])
    [] call.handler = "onExistingParticipants" ->
         onExistingParticipants(m, roomId, call.args[1])
    [] call.handler = "onSignalReceived" ->
         onSignalReceived(m, roomId, call.args[1], call.args[2])
    [] OTHER -> m

\* The callbacks of calls reach the Room component in order.
RECURSIVE RoomReactsAll(_, _, _)
RoomReactsAll(m, roomId, calls) ==
  IF calls = <<>> THEN m
  ELSE RoomReactsAll(RoomReacts(m, roomId, Head(calls)), roomId, Tail(calls))

\* The frames of frames arrive at the client of a Room component in order;
\* each goes through this.ws.onmessage to the registered handlers.
RECURSIVE RoomReceives(_, _, _)
RoomReceives(m, roomId, frames) ==
  IF frames = <<>> THEN m
  ELSE RoomReceives(RoomReactsAll(m, roomId, onmessage(Client, Head(frames)).calls),
                    roomId, Tail(frames))

\* The frames of out addressed to participant q, in sending order.
FramesTo(out, q) ==
  LET mine == SelectSeq(out, LAMBDA f : f.to = q)
  IN  [i \in 1..Len(mine) |-> mine[i].data]

\* The (remote peer id, isInitiator) pairs of the records of manager m.
Links(m) ==
  {<<m.connections[i].id, m.connections[i].isInitiator>> : i \in 1..Len(m.connections)}

\* The manager of participant q, in room roomId with a ready manager and no
\* records, after the frames the directory sent to q in out.
ManagerOf(q, roomId, out) == RoomReceives(ReadyManager, roomId, FramesTo(out, q))

\* C18: when participant p joins room r, every member already in r whose
\* transport is open creates exactly one record for p, as initiator; p, if
\* its transport is open, creates one responder record for each member
\* already in r and nothing else; nobody else creates a record; so whenever
\* both ends of a link hold a record for each other the roles are opposite.
Thm_C18_OppositeRoles ==
  \A p \in Alive : \A d \in JoinFrames :
    LET r == d.obj.roomId
        present == Range(Before(r, p))
        out == Handled(p, d).out
    IN  /\ \A q \in Alive :
             LET m == ManagerOf(q, r, out)
             IN  /\ ~m.threw
                 /\ Len(m.peers) = Len(m.connections)
                 /\ Links(m) =
                      IF ~IsOpen(q) THEN {}
                      ELSE IF q = p THEN {<<x, FALSE>> : x \in present}
                      ELSE IF q \in present THEN {<<p, TRUE>>}
                      ELSE {}
        /\ \A q1 \in Alive : \A l \in Links(ManagerOf(q1, r, out)) :
             (l[1] \in Alive => <<q1, l[2]>> \notin Links(ManagerOf(l[1], r, out)))

\* A join into a room with an open member and a member whose transport is
\* closing: the joiner holds two responder records, the open member one
\* initiator record for the joiner.
Wit_C18_JoinerMeetsTwoMembers ==
  \E p \in Alive : \E d \in JoinFrames :
    LET r == d.obj.roomId
        out == Handled(p, d).out
    IN  /\ IsOpen(p) /\ ~InRoom(p)
        /\ Cardinality(Range(Before(r, p))) = 2
        /\ \E q \in Range(Before(r, p)) : ~IsOpen(q)
        /\ Cardinality(Links(ManagerOf(p, r, out))) = 2
        /\ \E q \in Range(Before(r, p)) :
             (IsOpen(q) /\ Links(ManagerOf(q, r, out)) = {<<p, TRUE>>})

(* ------------------------------------------------- orchestrator properties *)

\* The SimplePeer objects created for peerId that are not destroyed.
LivePeers(m, peerId) ==
  {k \in 1..Len(m.peers) : m.peers[k].id = peerId /\ ~m.peers[k].destroyed}

\* The record of peerId in the connections map.
Record(m, peerId) == m.connections[Slot(m.connections, peerId)]

\* C19: createConnection for a peer id whose record holds a peer object that
\* is not destroyed leaves the record and the peer objects as they are, and
\* no remote peer id ever has two live peer objects.
Cex_C19_DuplicateCreateIgnored ==
  /\ \A peerId \in PeerIds : \A isInitiator \in BOOLEAN :
       (/\ Has(connections, peerId)
        /\ ~peers[Record(Rtc, peerId).peer].destroyed)
       => LET m == createConnection(Rtc, peerId, isInitiator, CallId)
          IN  m.connections = connections /\ m.peers = peers
  /\ \A peerId \in PeerIds : Cardinality(LivePeers(Rtc, peerId)) <= 1

\* Two live peer objects for one remote peer id, the older one no longer
\* reachable through the connections map.
Wit_C19_TwoLivePeerObjects ==
  \E peerId \in PeerIds :
    /\ Cardinality(LivePeers(Rtc, peerId)) = 2
    /\ \E k \in LivePeers(Rtc, peerId) : ~Stored(Rtc, k)

\* C20: closeConnection on a peer id with a record destroys the record's
\* peer object, removes the record, detaches the remote stream of that id
\* and leaves every other record, peer object and stream alone; on a peer
\* id without a record it changes nothing, invokes nothing and does not
\* throw; a second closeConnection changes nothing; closeAllConnections on
\* an empty map changes nothing, and run twice gives what it gives once.
Thm_C20_CloseConnectionEffect ==
  /\ \A peerId \in PeerIds :
       LET m == closeConnection(Rtc, peerId)
       IN  /\ ~m.threw
           /\ closeConnection(m, peerId) = m
           /\ IF Has(connections, peerId)
              THEN LET k == Record(Rtc, peerId).peer
                   IN  /\ m.peers[k].destroyed
                       /\ Len(m.peers) = Len(peers)
                       /\ \A j \in 1..Len(peers) : (j # k => m.peers[j] = peers[j])
                       /\ ~Has(m.connections, peerId)
                       /\ Len(m.connections) = Len(connections) - 1
                       /\ \A other \in PeerIds \ {peerId} :
                            (Has(connections, other) =>
                               /\ Has(m.connections, other)
                               /\ Record(m, other) = Record(Rtc, other))
                       /\ peerId \notin DOMAIN m.remoteStreams
                       /\ \A other \in DOMAIN remoteStreams \ {peerId} :
                            (/\ other \in DOMAIN m.remoteStreams
                             /\ m.remoteStreams[other] = remoteStreams[other])
                       /\ m.isInitialized = isInitialized
                       /\ m.localStream = localStream
              ELSE m = Rtc
  /\ (connections = <<>> => closeAllConnections(Rtc) = Rtc)
  /\ LET m == closeAllConnections(Rtc)
     IN  /\ ~m.threw
         /\ m.connections = <<>>
         /\ closeAllConnections(m) = m

\* One peer has a record with a live peer object and an attached remote
\* stream, the record of the other holds an object its remote end closed.
Wit_C20_LiveAndClosedRecords ==
  \E peerId \in PeerIds : \E other \in PeerIds \ {peerId} :
    /\ Has(connections, peerId)
    /\ ~peers[Record(Rtc, peerId).peer].destroyed
    /\ peerId \in DOMAIN remoteStreams
    /\ Has(connections, other)
    /\ peers[Record(Rtc, other).peer].destroyed

(* ---------------------------------------------------- control channel *)

\* The records of m that are connected, in map order.
ConnectedRecords(m) == SelectSeq(m.connections, LAMBDA x : x.isConnected)

\* The fields of m, whatever it invoked.
Fields(m) == [m EXCEPT !.calls = <<>>]

\* The manager at the far end of a link, holding one connected record for
\* this end under the id peerId.
FarEnd(peerId) == Fields(onPeerConnect(createConnection(ReadyManager, peerId, FALSE, CallId), 1))

\* What the far end logs when the frames handed to peer.send in calls
\* arrive on its data channel.
RECURSIVE FarEndLogs(_, _)
FarEndLogs(m, calls) ==
  IF calls = <<>> THEN m.calls
  ELSE FarEndLogs(onPeerData(m, 1, Head(calls).args[2]), Tail(calls))

\* C21: a broadcast changes no field, does not throw, and hands exactly one
\* control message to the peer object of each record that is connected at
\* the call, in map order, and nothing else: no send for another record and
\* no warning; the far end of a connected link handles exactly one
\* mute-status message carrying the value broadcast.
Thm_C21_BroadcastToConnectedOnly ==
  LET to == ConnectedRecords(Rtc)
      sent(message) ==
        [i \in 1..Len(to) |-> Call("peer.send", <<to[i].peer, JSONstringify(message)>>)]
  IN  /\ \A isMuted \in MuteValues :
           LET m == broadcastMuteStatus(Rtc, isMuted)
           IN  /\ Fields(m) = Rtc
               /\ m.calls = sent([type |-> "mute-status", isMuted |-> isMuted,
                                  timestamp |-> NOW])
               /\ \A i \in 1..Len(m.calls) :
                    FarEndLogs(FarEnd(Uuids[3]), <<m.calls[i]>>)
                      = <<Call("console.log mute status", <<Uuids[3], isMuted>>)>>
      /\ \A level \in Levels :
           LET m == broadcastAudioLevel(Rtc, level)
           IN  /\ Fields(m) = Rtc
               /\ m.calls = sent([type |-> "audio-level", level |-> level,
                                  timestamp |-> NOW])

\* One record is connected and another is still negotiating.
Wit_C21_ConnectedAndNegotiating ==
  /\ Len(connections) = 2
  /\ Len(ConnectedRecords(Rtc)) = 1
  /\ \A i \in 1..2 : ~peers[connections[i].peer].destroyed

\* The records of peer ids other than peerId are in m as they are now.
OthersKept(m, peerId) ==
  \A other \in PeerIds \ {peerId} :
    Has(connections, other) =>
      (Has(m.connections, other) /\ Record(m, other) = Record(Rtc, other))

\* C22: when the peer object of a record fails, the record is removed from
\* the map, the remote stream of that peer id is detached, the failure is
\* reported for that peer id, and the records of all other peers are
\* unchanged.
Cex_C22_FailedPeerTornDown ==
  \A k \in 1..Len(peers) :
    (~peers[k].destroyed /\ Stored(Rtc, k)) =>
      LET m == PeerFailed(k)
          peerId == peers[k].id
      IN  /\ ~Has(m.connections, peerId)
          /\ peerId \notin DOMAIN m.remoteStreams
          /\ \E i \in 1..Len(m.calls) :
               m.calls[i] = Call("onConnectionStateChange", <<peerId, "error">>)
          /\ OthersKept(m, peerId)

\* The record of a failed or closed peer object is still in the map.
Wit_C22_DeadRecordKept ==
  \E i \in 1..Len(connections) :
    /\ peers[connections[i].peer].destroyed
    /\ ~connections[i].isConnected
    /\ connections[i].id \notin DOMAIN remoteStreams

\* signalData as the Room component builds it for a relayed signal.
SignalData(from, signal) ==
  [from |-> from, to |-> "", signal |-> signal, callId |-> CallId, type |-> signal.type]

\* C23: handleSignal changes no field and does not throw; for a peer id
\* without a record it invokes nothing; for a peer id with a record it
\* hands the payload to the peer object of that record, if that object is
\* not destroyed, and to no other object.
Thm_C23_SignalOnlyToRecordedPeer ==
  \A from \in PeerIds \cup {Uuids[3]} : \A signal \in Signals :
    LET m == rtcHandleSignal(Rtc, SignalData(from, signal))
    IN  /\ Fields(m) = Rtc
        /\ m.calls =
             IF Has(connections, from) /\ ~peers[Record(Rtc, from).peer].destroyed
             THEN <<Call("peer.signal", <<Record(Rtc, from).peer, signal>>)>>
             ELSE <<>>

\* One peer id has a record and, beside the object of that record, an older
\* live object; the other peer id has no record.
Wit_C23_RecordOrphanAndStranger ==
  \E from \in PeerIds :
    /\ Len(connections) = 1
    /\ connections[1].id = from
    /\ LivePeers(Rtc, from) = {1, 2}

\* C24: createConnection while the AudioManager has no local stream throws
\* before anything is built: no field of the manager changes (no record, no
\* peer object) and nothing is invoked (no signal).
Thm_C24_NoStreamNoPartialState ==
  \A peerId \in PeerIds : \A isInitiator \in BOOLEAN :
    ~localStream =>
      LET m == createConnection(Rtc, peerId, isInitiator, CallId)
      IN  /\ m.threw
          /\ [m EXCEPT !.threw = FALSE] = Rtc

\* An initialised manager that lost its local stream while it holds a
\* record.
Wit_C24_StreamGoneRecordsHeld ==
  /\ isInitialized
  /\ ~localStream
  /\ Len(connections) = 1
  /\ ~peers[connections[1].peer].destroyed
  /\ Len(peers) = 1

\* C25: sendDataChannelMessage to a peer id without a record, or whose
\* record is not connected, changes no field, does not throw and hands
\* nothing to any peer object: it only warns.
Thm_C25_SendToUnconnectedIgnored ==
  \A peerId \in PeerIds \cup {Uuids[3]} : \A message \in ControlMessages :
    (~Has(connections, peerId) \/ ~Record(Rtc, peerId).isConnected) =>
      LET m == sendDataChannelMessage(Rtc, peerId, message)
      IN  /\ Fields(m) = Rtc
          /\ m.calls = <<Call("console.warn", <<peerId>>)>>

\* One peer id has a record that is still negotiating, the other has none.
Wit_C25_NegotiatingAndUnknown ==
  \E peerId \in PeerIds :
    /\ Len(connections) = 1
    /\ connections[1].id = peerId
    /\ ~connections[1].isConnected
    /\ LivePeers(Rtc, peerId) = {connections[1].peer}

\* The control message types the data listener knows.
KnownControl(data) ==
  LET parsed == JSONparse(data)
  IN  /\ ~parsed.threw /\ ~parsed.isNull
      /\ Get(parsed.obj, "type") \in {"mute-status", "audio-level"}

\* C26: a frame on the data channel of a live peer object never throws out
\* of the listener and changes no field: every record, its connected flag,
\* every peer object and stream stay as they are; a frame that does not
\* parse is logged as an error, one of another type as unknown, and neither
\* invokes a callback.
Thm_C26_UnknownControlIgnored ==
  \A k \in 1..Len(peers) : \A data \in DataFrames :
    ~peers[k].destroyed =>
      LET m == onPeerData(Rtc, k, data)
          parsed == JSONparse(data)
      IN  /\ Fields(m) = Rtc
          /\ ~KnownControl(data) =>
               m.calls = IF parsed.threw \/ parsed.isNull
                         THEN <<Call("console.error", <<peers[k].id>>)>>
                         ELSE <<Call("console.log unknown message type", <<peers[k].id>>)>>

\* Two connected records with live peer objects.
Wit_C26_TwoConnected ==
  /\ Len(ConnectedRecords(Rtc)) = 2
  /\ \A i \in 1..2 : ~peers[connections[i].peer].destroyed

(* ======================================================================= *)
(* A reconnect seen from both ends: the client of one participant and the   *)
(* directory.                                                               *)
(* ======================================================================= *)

\* server.on('connection') in directory state s.
onConnection(s, participantId) ==
  sendMessage(
    [s EXCEPT !.participants = MapSet(@, participantId,
        [ws |-> OPEN, roomId |-> NULL, nickname |-> "Anonymous"])],
    participantId, OPEN,
    [type |-> "connected", participantId |-> participantId])

\* The handlers the Room component registers for onConnected and
\* onDisconnected only log: they ask nothing of the client.
onConnected(c) == c
onDisconnected(c) == c

\* The client of a Room component from construction to its first open
\* transport, with what it put on the wire forgotten.
FirstConnected ==
  LET c1 == connect(Client, CALLER)
      c2 == onConnected(onopen([c1 EXCEPT !.sockets[c1.ws] = OPEN], c1.ws))
  IN  [c2 EXCEPT !.wire = <<>>, !.calls = <<>>]

\* That client after its transport closed without disconnect(), the
\* reconnect timer ran and the new transport opened.
AutoReconnected ==
  LET c0 == FirstConnected
      c1 == onDisconnected(onclose([c0 EXCEPT !.sockets[c0.ws] = CLOSED]))
      c2 == connect([c1 EXCEPT !.timers = Tail(@)], TIMER)
  IN  onConnected(onopen([c2 EXCEPT !.sockets[c2.ws] = OPEN], c2.ws))

\* The frames of wire reach the directory over the connection of
\* participantId, in order.
RECURSIVE Receives(_, _, _)
Receives(s, participantId, wire) ==
  IF wire = <<>> THEN s
  ELSE Receives(onMessage(s, participantId, OPEN, Head(wire).data),
                participantId, Tail(wire))

\* The directory after the transport of participant p closed, the client
\* of p reconnected and was given the id fresh, and everything that client
\* sent since has arrived.
AfterReconnect(p, fresh) ==
  Receives(onConnection(Closed(p), fresh), fresh, AutoReconnected.wire)

\* C27: after an unintended close of the transport of a participant that is
\* in a room, followed by a successful automatic reconnect, the participant
\* is a member of that room again.
Cex_C27_MemberAgainAfterReconnect ==
  \A p \in Alive :
    (InRoom(p) /\ issued < MaxConn) =>
      LET r == participants[p].roomId
          fresh == Uuids[issued + 1]
          s == AfterReconnect(p, fresh)
      IN  /\ AutoReconnected.sockets[AutoReconnected.ws] = OPEN
          /\ s.participants[fresh].roomId = r
          /\ r \in DOMAIN s.rooms
          /\ fresh \in Range(s.rooms[r])

\* A participant shares a room with another one; after the reconnect its
\* client is open on the new transport and has sent nothing, and the
\* directory knows it under the fresh id only, in no room.
Wit_C27_InRoomWithPeer ==
  \E p \in Alive :
    /\ IsOpen(p) /\ InRoom(p) /\ issued < MaxConn
    /\ Cardinality(Members(participants[p].roomId)) = 2
    /\ AfterReconnect(p, Uuids[issued + 1]).participants[Uuids[issued + 1]].roomId = NULL
    /\ p \notin DOMAIN AfterReconnect(p, Uuids[issued + 1]).participants
    /\ AutoReconnected.sockets[AutoReconnected.ws] = OPEN
    /\ AutoReconnected.reconnectAttempts = 0
    /\ AutoReconnected.wire = <<>>

(* ------------------------------------------------- directory: send order *)

\* The positions in out of the frames of one type.
At(out, type) == {i \in 1..Len(out) : out[i].msg.type = type}

\* C28: among the frames one join-room sends, every participant-joined goes
\* to a member that was in the room before, never to the joiner, and comes
\* before the roster; there is at most one roster and it goes to the joiner.
Thm_C28_NotificationsBeforeRoster ==
  \A p \in Alive : \A d \in JoinFrames :
    LET out == Delivered(Handled(p, d).out)
        rosterAt == At(out, "existing-participants")
        joinedAt == At(out, "participant-joined")
    IN  /\ Cardinality(rosterAt) <= 1
        /\ \A j \in rosterAt : (out[j].to = p /\ \A i \in joinedAt : i < j)
        /\ \A i \in joinedAt :
             (out[i].to # p /\ out[i].to \in Range(Before(d.obj.roomId, p)))

\* A participant in one room with a companion joins another room that has
\* an open member: the join sends a notification and a roster after the
\* frames of the implicit leave.
Wit_C28_SwitchIntoPopulatedRoom ==
  \E p \in Alive : \E d \in JoinFrames :
    LET out == Delivered(Handled(p, d).out)
    IN  /\ IsOpen(p) /\ InRoom(p)
        /\ participants[p].roomId # d.obj.roomId
        /\ Cardinality(Members(participants[p].roomId)) = 2
        /\ At(out, "participant-joined") # {}
        /\ At(out, "existing-participants") # {}

(* --------------------------------------------- orchestrator: late events *)

\* What each listener registered on peer object k does to m when its event
\* is delivered.
Listeners(m, k) ==
  {onPeerConnect(m, k), onPeerStream(m, k), onPeerClose(m, k), onPeerError(m, k)}
  \cup {onPeerSignal(m, k, data) : data \in Signals}
  \cup {onPeerData(m, k, data) : data \in DataFrames}

\* m holds or announces something for peerId: a record, a remote stream, a
\* signal to send, or a 'connected' state change.
Resurrected(m, peerId) ==
  \/ Has(m.connections, peerId)
  \/ peerId \in DOMAIN m.remoteStreams
  \/ \E i \in 1..Len(m.calls) :
       \/ m.calls[i].handler = "onSignal"
       \/ m.calls[i] = Call("onConnectionStateChange", <<peerId, "connected">>)

\* C29: once closeConnection or closeAllConnections has run, an event of a
\* peer object it destroyed, delivered to the listeners of that object,
\* re-adds no record, attaches no remote stream for the peer id, and emits
\* neither a signal nor a 'connected' state change.
Cex_C29_LateEventsInert ==
  \A peerId \in PeerIds :
    Has(connections, peerId) =>
      LET k == Record(Rtc, peerId).peer
      IN  /\ \A m \in Listeners(Fields(closeConnection(Rtc, peerId)), k) :
               ~Resurrected(m, peerId)
          /\ \A m \in Listeners(Fields(closeAllConnections(Rtc)), k) :
               ~Resurrected(m, peerId)

\* A peer object destroyed by closeConnection, its peer id without record
\* and stream; its stream listener would attach a stream for that id again
\* and its connect listener would announce 'connected'.
Wit_C29_ClosedPeerObject ==
  \E k \in 1..Len(peers) :
    /\ peers[k].destroyed
    /\ ~Has(connections, peers[k].id)
    /\ peers[k].id \notin DOMAIN remoteStreams
    /\ peers[k].id \in DOMAIN onPeerStream(Rtc, k).remoteStreams
    /\ ~Has(onPeerStream(Rtc, k).connections, peers[k].id)
    /\ onPeerConnect(Rtc, k).calls
         = <<Call("onConnectionStateChange", <<peers[k].id, "connected">>)>>

(* ------------------------------------------------- directory: broadcasts *)

\* The broadcasts the handlers make: a departure, with nobody excluded, and
\* an arrival, with the arriving participant excluded.
Broadcasts ==
  {[message |-> [type |-> "participant-left", participantId |-> Uuids[1]],
    exclude |-> NULL]}
  \cup {[message |-> [type |-> "participant-joined", participantId |-> p,
                      nickname |-> "alice"],
         exclude |-> p] : p \in Alive}

JoinedAt(out, q, x) ==
  {i \in At(out, "participant-joined") :
     out[i].to = q /\ out[i].msg.participantId = x}

ListedAt(out, q, x) ==
  {i \in At(out, "existing-participants") :
     /\ out[i].to = q
     /\ \E j \in 1..Len(out[i].msg.participants) :
          out[i].msg.participants[j].participantId = x}

\* The frames of out that tell their recipient of a participant.
Introductions(out) ==
  SelectSeq(out, LAMBDA f :
    f.msg.type \in {"participant-joined", "existing-participants"})

\* C31: whatever frame the directory handles, a participant q is told of
\* another participant x at most once, and only by a join-room of q or x
\* that makes them co-members: on the join of p into room r each member
\* present before whose transport is open gets exactly one
\* participant-joined for p, then p (transport open) gets exactly one
\* roster, which lists each member present before exactly once, and no
\* other participant-joined or roster is sent. Leave, signal, close,
\* connection and rejected frames introduce nobody, so while two members
\* stay in a room together neither is introduced to the other again.
Thm_C31_IntroducedOnce ==
  /\ \A p \in Alive : \A d \in JoinFrames :
       LET present == Before(d.obj.roomId, p)
       IN  /\ Cardinality(Range(present)) = Len(present)
           /\ Introductions(Delivered(Handled(p, d).out)) =
                ToEach(OpenOf(present),
                       [type |-> "participant-joined", participantId |-> p,
                        nickname |-> NickOf(d)])
                \o (IF present # <<>>
                    THEN ToOpen(p, [type |-> "existing-participants",
                                    participants |-> Roster(present)])
                    ELSE <<>>)
  /\ \A p \in Alive : \A d \in Frames \ JoinFrames :
       Introductions(Delivered(Handled(p, d).out)) = <<>>
  /\ \A p \in Alive : Introductions(Delivered(Closed(p).out)) = <<>>
  /\ \A p \in TargetIds \ IssuedIds :
       Introductions(Delivered(Connected(p).out)) = <<>>

\* Two members of one room that were introduced by the join of the later
\* one, while a third participant with an open transport joins the same
\* room: both are told of the third, neither of the other.
Wit_C31_ThirdJoinsPair ==
  \E p \in Alive : \E d \in JoinFrames :
    LET out == Delivered(Handled(p, d).out)
        r == d.obj.roomId
    IN  /\ IsOpen(p) /\ ~InRoom(p)
        /\ \E q \in Range(Before(r, p)) : \E x \in Range(Before(r, p)) \ {q} :
             /\ IsOpen(q) /\ IsOpen(x)
             /\ Cardinality(JoinedAt(out, q, p)) = 1
             /\ Cardinality(JoinedAt(out, x, p)) = 1
             /\ Cardinality(ListedAt(out, p, q)) = 1
             /\ JoinedAt(out, q, x) \cup ListedAt(out, q, x) = {}

(* ------------------------------------------ the first negotiation payload *)

\* The frame the client of an existing member puts on the wire when the
\* peer object it created for the joiner emits its first signal.
FirstSignalTo(joiner) ==
  handleSignalData(FirstConnected,
                   [from |-> "local", to |-> joiner, signal |-> SDP,
                    callId |-> CallId, type |-> "offer"]).wire[1].data

\* C32: when N (transport open, manager ready) joins a room in which M has an
\* open transport, and the directory then relays a signal M sent after the
\* join was handled, the frames N receives carry the roster listing M before
\* that signal; processing them in order, N has created its responder record
\* for M when the signal arrives, so handleSignal hands the payload to the
\* peer object of that record and drops nothing.
Thm_C32_RosterBeforeFirstSignal ==
  \A p \in Alive : \A d \in JoinFrames :
    IsOpen(p) =>
      LET r == d.obj.roomId
          s1 == Handled(p, d)
      IN  \A q \in Range(Before(r, p)) :
            IsOpen(q) =>
              LET s2 == onMessage(s1, q, OPEN, FirstSignalTo(p))
                  inbox == Inbox(s2.out, p)
                  m == RoomReceives(ReadyManager, r, FramesTo(s2.out, p))
              IN  /\ Len(inbox) >= 2
                  /\ inbox[Len(inbox)] = [type |-> "signal", from |-> q, signal |-> SDP]
                  /\ \E i \in 1..(Len(inbox) - 1) :
                       /\ inbox[i].type = "existing-participants"
                       /\ \E j \in 1..Len(inbox[i].participants) :
                            inbox[i].participants[j].participantId = q
                  /\ ~m.threw
                  /\ Has(m.connections, q)
                  /\ ~Record(m, q).isInitiator
                  /\ m.calls = <<Call("peer.signal", <<Record(m, q).peer, SDP>>)>>

\* A participant joins a room with two open members and the second of them
\* answers with a signal: the joiner applies it to its record for that
\* member, the second of its two records.
Wit_C32_SignalFromSecondMember ==
  \E p \in Alive : \E d \in JoinFrames :
    LET r == d.obj.roomId
        s1 == Handled(p, d)
    IN  /\ IsOpen(p)
        /\ Len(Before(r, p)) = 2
        /\ \A i \in 1..2 : IsOpen(Before(r, p)[i])
        /\ LET q == Before(r, p)[2]
               s2 == onMessage(s1, q, OPEN, FirstSignalTo(p))
               m == RoomReceives(ReadyManager, r, FramesTo(s2.out, p))
           IN  /\ Len(m.connections) = 2
               /\ m.calls = <<Call("peer.signal", <<2, SDP>>)>>

(* ------------------------------------------------- departure of a member *)

\* The manager of a member that holds an established link to peerId: the
\* record was created in either role, the peer object connected and
\* delivered the remote stream.
Linked(peerId, roomId, isInitiator) ==
  onPeerStream(onPeerConnect(
    createConnection(ReadyManager, peerId, isInitiator, roomId), 1), 1)

\* C33: when a member p of room r sends leave-room, or its transport has
\* closed and the close handler runs, the directory sends exactly one
\* participant-left{p} to every remaining member of r whose transport is open
\* and nothing to any other participant but p; a member holding an
\* established link to p that processes its frames ends with the peer object
\* destroyed, no record and no remote stream for p.
Thm_C33_DepartureReachesMembers ==
  \A p \in Alive :
    InRoom(p) =>
      LET r == participants[p].roomId
      IN  \A s \in {Handled(p, LeaveFrame), Closed(p)} :
            \A q \in Alive \ {p} :
              IF participants[q].roomId = r /\ IsOpen(q)
              THEN /\ Inbox(s.out, q) =
                        <<[type |-> "participant-left", participantId |-> p]>>
                   /\ \A isInitiator \in BOOLEAN :
                        LET m == RoomReceives(Linked(p, r, isInitiator), r,
                                              FramesTo(s.out, q))
                        IN  /\ ~m.threw
                            /\ m.peers[1].destroyed
                            /\ ~Has(m.connections, p)
                            /\ p \notin DOMAIN m.remoteStreams
              ELSE Inbox(s.out, q) = <<>>

\* The transport of a member has closed while two other members remain in
\* its room, one with an open transport and one whose transport is closing:
\* the close handler notifies the open one, which held a record and a remote
\* stream for the member.
Wit_C33_CloseWithTwoRemaining ==
  \E p \in Alive : \E q \in Alive \ {p} : \E o \in Alive \ {p, q} :
    /\ participants[p].ws # OPEN
    /\ InRoom(p)
    /\ participants[q].roomId = participants[p].roomId /\ IsOpen(q)
    /\ participants[o].roomId = participants[p].roomId /\ ~IsOpen(o)
    /\ Has(Linked(p, "r1", TRUE).connections, p)
    /\ p \in DOMAIN Linked(p, "r1", TRUE).remoteStreams
    /\ Len(FramesTo(Closed(p).out, q)) = 1
    /\ FramesTo(Closed(p).out, o) = <<>>

(* ------------------------------------------- relay and room membership *)

\* The current directory with every trace of membership removed: no room,
\* every participant in no room and under the default nickname.
NoMembership ==
  [Cur EXCEPT !.rooms = <<>>,
              !.participants = [q \in DOMAIN participants |->
                                  [ws |-> participants[q].ws, roomId |-> NULL,
                                   nickname |-> "Anonymous"]]]

\* C34: handling a signal frame leaves the room map and every participant
\* record as they were; one frame goes out exactly when the target id is a
\* connected participant whose transport is open, whether or not sender and
\* target are in a room or in the same room; and what is sent is what would
\* be sent if nobody were in any room.
Thm_C34_RelayIgnoresMembership ==
  \A a \in Alive : \A d \in SignalFrames :
    LET s == Handled(a, d)
    IN  /\ Untouched(s)
        /\ Len(s.out) = IF IsOpen(Get(d.obj, "to")) THEN 1 ELSE 0
        /\ \A i \in 1..Len(s.out) : s.out[i].to = Get(d.obj, "to")
        /\ s.out = onMessage(NoMembership, a, ReadyState(a), d).out

\* A sender in no room, one target in a room and one target in no room, all
\* transports open: both signals are delivered.
Wit_C34_SenderOutsideAnyRoom ==
  \E a, b, c \in Alive :
    /\ a # b /\ b # c /\ a # c
    /\ IsOpen(a) /\ IsOpen(b) /\ IsOpen(c)
    /\ ~InRoom(a) /\ InRoom(b) /\ ~InRoom(c)
    /\ \E d \in SignalFrames :
         (Get(d.obj, "to") = b /\ Len(Handled(a, d).out) = 1)
    /\ \E d \in SignalFrames :
         (Get(d.obj, "to") = c /\ Len(Handled(a, d).out) = 1)

(* ------------------------------------------------ no notice about oneself *)

\* Frame f of a handler's output tells its recipient about the recipient
\* itself: a participant-joined or participant-left naming it, or a roster
\* listing it.
AboutRecipient(f) ==
  \/ /\ f.msg.type \in {"participant-joined", "participant-left"}
     /\ f.msg.participantId = f.to
  \/ /\ f.msg.type = "existing-participants"
     /\ \E j \in 1..Len(f.msg.participants) :
          f.msg.participants[j].participantId = f.to

NoneAboutRecipient(out) == \A i \in 1..Len(out) : ~AboutRecipient(out[i])

\* C35: no frame the directory sends while handling a message, a close or a
\* new connection tells its recipient about the recipient itself: the
\* joiner gets no participant-joined naming it and no roster listing it, the
\* leaver (leave-room, implicit leave of a join, close) no participant-left
\* naming it.
Thm_C35_NeverNotifiedAboutSelf ==
  /\ \A p \in Alive : \A d \in JoinFrames \cup {LeaveFrame} :
       NoneAboutRecipient(Delivered(Handled(p, d).out))
  /\ \A p \in Alive : NoneAboutRecipient(Delivered(Closed(p).out))
  /\ \A p \in TargetIds \ IssuedIds : NoneAboutRecipient(Delivered(Connected(p).out))

\* A member of a room with another open member joins that same room again:
\* the other member is told that it left and joined, the joiner gets the
\* roster, and neither is told about itself.
Wit_C35_RejoinSameRoom ==
  \E p \in Alive : \E q \in Alive \ {p} : \E d \in JoinFrames :
    LET out == Delivered(Handled(p, d).out)
    IN  /\ IsOpen(p) /\ IsOpen(q)
        /\ participants[p].roomId = d.obj.roomId
        /\ participants[q].roomId = d.obj.roomId
        /\ \E i \in At(out, "participant-left") : out[i].to = q
        /\ \E i \in At(out, "participant-joined") : out[i].to = q
        /\ \E i \in At(out, "existing-participants") : out[i].to = p
        /\ NoneAboutRecipient(out)

(* ------------------------------------------------------ rejected messages *)

\* Signal frames whose target is not a connected participant.
SignalsToAbsent == {d \in SignalFrames : Get(d.obj, "to") \notin Alive}

\* C36: a frame that does not parse, parses to null or a scalar, carries an
\* unknown or no type, is a join-room without a usable roomId, or is a signal
\* to an id that is not connected, leaves the room map and every participant
\* record as they were; the sender of such a join-room stays a member of the
\* room it is in.
Thm_C36_RejectedLeavesStateAlone ==
  \A p \in Alive :
    \A d \in UnparseableFrames \cup UnknownTypeFrames \cup BadJoinFrames
             \cup SignalsToAbsent :
      LET s == Handled(p, d)
      IN  /\ s.rooms = rooms
          /\ s.participants = participants
          /\ InRoom(p) => p \in Range(s.rooms[s.participants[p].roomId])

\* A member of a room shared with another member sends join-room without a
\* roomId and with an empty one, while a closed connection's id is there to
\* be the target of a signal: nothing changes and nothing is sent to the
\* other member.
Wit_C36_MemberSendsBadJoin ==
  \E p \in Alive : \E q \in Alive \ {p} :
    /\ IsOpen(p) /\ IsOpen(q)
    /\ InRoom(p) /\ participants[q].roomId = participants[p].roomId
    /\ IssuedIds \ Alive # {}
    /\ \A d \in BadJoinFrames :
         /\ Untouched(Handled(p, d))
         /\ FramesTo(Handled(p, d).out, q) = <<>>
    /\ \E d \in SignalsToAbsent : Get(d.obj, "to") \in IssuedIds

(* ------------------------------------------------- the reconnect counter *)

\* C37: the reconnect counter starts within 0..5 and every step keeps it
\* there; a step raises it only by one and only together with setting one
\* reconnect timer; every step in which a transport opens leaves it at 0,
\* and it goes down in no other step.
Thm_C37_CounterRangeAndReset ==
  /\ reconnectAttempts \in 0..maxReconnectAttempts
  /\ [][/\ reconnectAttempts' \in 0..maxReconnectAttempts
        /\ reconnectAttempts' > reconnectAttempts =>
             /\ reconnectAttempts' = reconnectAttempts + 1
             /\ Len(timers') = Len(timers) + 1
             /\ \A t \in DOMAIN sockets : ~Opens(t)
        /\ (\E t \in DOMAIN sockets : Opens(t)) => reconnectAttempts' = 0
        /\ reconnectAttempts' < reconnectAttempts =>
             /\ reconnectAttempts' = 0
             /\ \E t \in DOMAIN sockets : Opens(t)
       ]_vars

\* After two unintended closes in a row, each followed by a scheduled
\* reconnect, the third transport has opened and the counter is back at 0.
Wit_C37_ResetAfterTwoRetries ==
  /\ reconnectAttempts = 0
  /\ unintended = 2
  /\ ~callerClosed
  /\ Len(sockets) = 3
  /\ sockets[1] = CLOSED /\ sockets[2] = CLOSED /\ sockets[3] = OPEN
  /\ ws = 3
  /\ timers = <<>>

(* ------------------------------------------------- the isConnected flag *)

\* What the methods and listeners make of the flag in the current state: a
\* record is stored not connected; the connect listener of the stored peer
\* object sets the flag and its close listener clears it; a connected
\* record holds a live peer object; the count is at most the number of
\* records and is 0 after closeAllConnections and after cleanup.
FlagsSound ==
  /\ \A peerId \in PeerIds : \A isInitiator \in BOOLEAN :
       LET m == createConnection(Rtc, peerId, isInitiator, CallId)
       IN  ~m.threw => ~Record(m, peerId).isConnected
  /\ \A k \in 1..Len(peers) :
       Stored(Rtc, k) =>
         /\ Record(onPeerConnect(Rtc, k), peers[k].id).isConnected
         /\ ~Record(onPeerClose(Rtc, k), peers[k].id).isConnected
         /\ Record(Rtc, peers[k].id).isConnected => ~peers[k].destroyed
  /\ getConnectedPeerCount(Rtc) <= Len(connections)
  /\ getConnectedPeerCount(closeAllConnections(Rtc)) = 0
  /\ getConnectedPeerCount(cleanup(Rtc)) = 0

\* The entry of the map before the step held the same PeerConnection object
\* as rec, and it was connected.
WasConnected(rec) ==
  \E j \in 1..Len(connections) :
    /\ connections[j].id = rec.id
    /\ connections[j].peer = rec.peer
    /\ connections[j].isConnected

\* C38: FlagsSound holds initially and in the state every step starts from
\* (every state is left by some step: the local stream is acquired or
\* dropped), and over every step a record of
\* the map that is connected and was not before has just had the connect
\* event of its own live peer object, and a record that was connected and
\* is still in the map but no longer connected has just had its peer object
\* destroyed, which emits close.
Thm_C38_ConnectedFlagLifecycle ==
  /\ FlagsSound
  /\ [][/\ FlagsSound
        /\ \A i \in 1..Len(connections') :
             (connections'[i].isConnected /\ ~WasConnected(connections'[i])) =>
               LET k == connections'[i].peer
               IN  /\ k \in 1..Len(peers)
                   /\ ~peers[k].destroyed
                   /\ Stored(Rtc, k)
                   /\ connections' = onPeerConnect(Rtc, k).connections
                   /\ peers' = peers
        /\ \A i \in 1..Len(connections') :
             (~connections'[i].isConnected
                /\ WasConnected([connections'[i] EXCEPT !.isConnected = TRUE])) =>
               LET k == connections'[i].peer
               IN  ~peers[k].destroyed /\ peers'[k].destroyed
       ]_vars

\* Two records, one connected and one still negotiating, after an earlier
\* peer object was destroyed: the count is 1 of 2 and closeAllConnections
\* brings it to 0.
Wit_C38_OneOfTwoConnected ==
  /\ Len(connections) = 2
  /\ getConnectedPeerCount(Rtc) = 1
  /\ getConnectedPeerCount(closeAllConnections(Rtc)) = 0

(* ------------------------------------------------ the uninitialised manager *)

\* createConnection on m throws for every peer id and role and changes
\* nothing: no record, no peer object, no callback.
CreateRefused(m) ==
  \A peerId \in PeerIds \cup {Uuids[3]} : \A isInitiator \in BOOLEAN :
    createConnection(m, peerId, isInitiator, CallId) = [m EXCEPT !.threw = TRUE]

\* C39: while the manager is not initialised (before initialize() and after
\* cleanup()) the active map is empty and createConnection throws without
\* adding a record, with or without a local stream; cleanup() in any state
\* gives a manager that is not initialised, has an empty map and refuses
\* createConnection, and initialize() makes it accept again.
Thm_C39_UninitialisedRefusesCreate ==
  /\ ~isInitialized => (connections = <<>> /\ CreateRefused(Rtc))
  /\ LET m == cleanup(Rtc)
     IN  /\ ~m.isInitialized
         /\ m.connections = <<>>
         /\ CreateRefused(Fields(m))
         /\ initialize(m).isInitialized
         /\ localStream =>
              Len(createConnection(initialize(Fields(m)), Uuids[1], TRUE, CallId).connections) = 1

\* After cleanup() of a manager that held two records: not initialised, the
\* local stream still there, both peer objects destroyed, the map empty.
Wit_C39_AfterCleanupWithStream ==
  /\ ~isInitialized
  /\ localStream
  /\ Len(peers) = 2
  /\ \A k \in 1..Len(peers) : peers[k].destroyed
  /\ connections = <<>>
  /\ CreateRefused(Rtc)

====
